---- MODULE Spec2Model ----
(***************************************************************************)
(* Model of the agent turn loop of infiAgent (core/agent_executor.py) and  *)
(* of the history compression it calls (services/action_compressor.py).    *)
(*                                                                         *)
(* One behaviour is a sequence of run() invocations for one                *)
(* (task_id, agent) pair.  The variables named after attributes of         *)
(* AgentExecutor are the in-memory state; `store` is the record kept by    *)
(* ConversationStorage; pc, turn, start_turn, max_tool_try, tool_calls,    *)
(* call_idx, cur_args, tool_result and rec_idx are the locals of run() and *)
(* of the methods it calls; `g` holds history variables that only observe. *)
(***************************************************************************)
EXTENDS Integers, Sequences, FiniteSets, TLC

(* ------------------------------ bounds -------------------------------- *)
\* model calls issued over one behaviour
MaxLlmCalls == 7
\* tool calls requested by the model over one behaviour
MaxToolCalls == 2
\* tool calls in one model response
MaxPerResponse == 2
\* the model answers with tool calls only among its first MaxToolTurn
\* responses of a run
MaxToolTurn == 2
\* invocations of run() over one behaviour
MaxRuns == 2
\* pending records in a state found in the store by the first run
MaxStoredPending == 2
\* invocations of run() over one behaviour of interrupted runs
MaxCrashRuns == 3

(* -------------------------- program constants ------------------------- *)
max_turns == 10000000
thinking_interval_default == 10
max_no_tool_reminders == 5
max_context_window == 80000
compress_safety_margin == 20000

(* ------------------------------ values -------------------------------- *)
NoState == [present |-> FALSE]

\* tool configurations known to config_loader.get_tool_config
ToolNames == {"final_output", "file_read", "sub_agent"}
tool_type(name) == IF name = "sub_agent" THEN "llm_call_agent" ELSE "tool_call_tool"
tool_level(name) == IF name = "sub_agent" THEN 1 ELSE 0

\* arguments: <<>> is {} (no task_input key); otherwise the task_input text
\* as a sequence of pieces
EmptyArgs == <<>>
Uuids == {"call-1", "call-2"}

\* what the model may ask for in one tool call
ToolRequests == {
    [name |-> "final_output", arguments |-> EmptyArgs],
    [name |-> "file_read",    arguments |-> <<"in">>],
    [name |-> "sub_agent",    arguments |-> <<"in">>] }

Result(st, out, info) == [status |-> st, output |-> out, error_information |-> info]

\* what ToolExecutor.execute may return for a tool: file_read may give an
\* oversized output ("BIG"), the other tools may fail
ToolResults(name) ==
    IF name = "file_read"
    THEN { Result("success", "ok", ""), Result("success", "BIG", "") }
    ELSE { Result("success", "ok", ""), Result("error", "err", "") }

\* what ThinkingAgent.analyze_first_thinking may return ("" is no output)
ThinkOutputs == {"", "plan_a"}

\* the output text of the n-th reminder (line 201)
ReminderOutput(n) ==
    IF n <= 5 THEN <<"remind_1", "remind_2", "remind_3", "remind_4", "remind_5">>[n]
    ELSE "remind_more"

(* ---------------------------- sequences ------------------------------- *)
RECURSIVE RemoveFirst(_, _)
\* list.remove(x): drops the first element equal to x
RemoveFirst(s, x) ==
    IF s = <<>> THEN <<>>
    ELSE IF Head(s) = x THEN Tail(s)
    ELSE <<Head(s)>> \o RemoveFirst(Tail(s), x)

\* the settled record left in the list
RemoveById_None(s, id) == s

\* [t for t in s if t["id"] != id]
RemoveById(s, id) == SelectSeq(s, LAMBDA t : t.id # id)

HasFinalOutput(trace) == \E i \in 1..Len(trace) : trace[i].tool_name = "final_output"

\* the result of the first final_output action of a trace
FirstFinalResult(trace) ==
    trace[CHOOSE i \in 1..Len(trace) :
            /\ trace[i].tool_name = "final_output"
            /\ \A j \in 1..(i - 1) : trace[j].tool_name # "final_output"].result

(* ----------------------------- records -------------------------------- *)
\* one entry of action_history / action_history_fact.  _turn = -1 and
\* tool_call_id = 0 stand for an absent key.  fact_ref models object
\* sharing: the index of the action_history_fact entry whose "result" dict
\* is the same Python object as this entry's, 0 when there is none.
ActionRecord(name, args, res, t, id, ref) ==
    [tool_name |-> name, arguments |-> args, result |-> res,
     _turn |-> t, tool_call_id |-> id, fact_ref |-> ref]

PendingRecord(id, name, args) ==
    [id |-> id, name |-> name, arguments |-> args, status |-> "pending"]

\* JSON round trip of a list of actions: values are kept, object identity
\* is not
Serialized(h) == [i \in 1..Len(h) |-> [h[i] EXCEPT !.fact_ref = 0]]

(* --------------------------- compression ------------------------------ *)
\* ActionCompressor.count_tokens on a tool output
OutputTokens(o) ==
    CASE o = "BIG" -> 50000
      [] o = "cmp" -> 30000
      [] o = "cut" -> 20000
      [] OTHER     -> 100

\* count_tokens of the XML of one action
ActionTokens(a) == 50 + OutputTokens(a.result.output)

RECURSIVE HistoryTokens(_)
HistoryTokens(h) == IF h = <<>> THEN 0 ELSE ActionTokens(Head(h)) + HistoryTokens(Tail(h))

\* count_tokens of thinking + task_input
ContextTokens == OutputTokens("plan_a") + OutputTokens("in")

\* what the summarization model may give for the history ("[failed]" is the
\* placeholder of a failed call) and for an oversized field ("cut" is the
\* truncation fallback)
SummaryOutputs == {"summary", "[failed]"}
FieldOutputs == {"cmp", "cut"}

_compress_action_fields(action, max_field_tokens, fout) ==
    IF OutputTokens(action.result.output) > max_field_tokens
    THEN [action EXCEPT !.result.output = fout]
    ELSE action

summary_action(sout) ==
    ActionRecord("_historical_summary", EmptyArgs, Result("success", sout, ""), -1, 0, 0)

compress_if_needed(h, sout, fout) ==
    IF h = <<>> THEN <<>>
    ELSE IF Len(h) = 1
    THEN << _compress_action_fields(h[1], max_context_window \div 2, fout) >>
    ELSE IF HistoryTokens(h) + ContextTokens <= max_context_window - compress_safety_margin
    THEN h
    ELSE << summary_action(sout),
            _compress_action_fields(h[Len(h)], (max_context_window * 5) \div 10, fout) >>

\* _compress_action_history_if_needed: the new action_history.  The result
\* dict of the most recent action is rewritten in place by the compressor,
\* whether or not the returned list is adopted.
CompressedHistory(h, sout, fout) ==
    IF h = <<>> THEN h
    ELSE LET c == compress_if_needed(h, sout, fout) IN
         IF Len(c) < Len(h) THEN c
         ELSE [h EXCEPT ![Len(h)].result = c[Len(c)].result]

\* the same in-place rewrite seen through action_history_fact
CompressedFact(h, fact, sout, fout) ==
    IF h = <<>> THEN fact
    ELSE LET c == compress_if_needed(h, sout, fout)
             ref == h[Len(h)].fact_ref
         IN IF ref # 0 THEN [fact EXCEPT ![ref].result = c[Len(c)].result] ELSE fact

\* the rendered history emptied when the compressor raises
HistoryAfterCompressionRaised_Empty(h) == <<>>

\* _compress_action_history_if_needed, lines 785-790: an exception out of
\* compress_if_needed is reported and action_history is left as it is
HistoryAfterCompressionRaised(h) == h

\* compress_if_needed, lines 80-100: is the historical summary requested
NeedsSummary(h) ==
    /\ Len(h) > 1
    /\ HistoryTokens(h) + ContextTokens > max_context_window - compress_safety_margin

\* compress_if_needed 77, 106-112 and _compress_action_fields 449-453: is
\* the compression of the most recent output requested
NeedsFieldCompression(h) ==
    \/ Len(h) = 1 /\ OutputTokens(h[1].result.output) > max_context_window \div 2
    \/ NeedsSummary(h)
          /\ OutputTokens(h[Len(h)].result.output) > (max_context_window * 5) \div 10

\* the summarization calls of this compression step that failed
CompressionFailure(h, sout, fout, raised) ==
    IF h = <<>> THEN {}
    ELSE IF raised THEN {"raised"}
    ELSE (IF NeedsSummary(h) /\ sout = "[failed]" THEN {"summary"} ELSE {})
         \cup (IF NeedsFieldCompression(h) /\ fout = "cut" THEN {"field"} ELSE {})

(* ------------------------------ state --------------------------------- *)
VARIABLES
    action_history, action_history_fact, pending_tools, latest_thinking,
    first_thinking_done, thinking_interval, tool_call_counter, llm_turn_counter,
    store,
    pc, turn, start_turn, max_tool_try, tool_calls, call_idx, cur_args,
    tool_result, rec_idx,
    g,
    cmp, _handlers, em, HIL_TASKS, hil

mem == <<action_history, action_history_fact, pending_tools, latest_thinking,
         first_thinking_done, tool_call_counter, llm_turn_counter>>
locals == <<turn, start_turn, max_tool_try, tool_calls, call_idx, cur_args,
            tool_result, rec_idx>>
\* the state of the compressor, of the event emitter and of the human-task
\* table, each exercised on its own below
components == <<cmp, _handlers, em, HIL_TASKS, hil>>
vars == <<mem, thinking_interval, store, pc, locals, g, components>>

NoResult == Result("", "", "")

\* _save_state: the record handed to ConversationStorage.save_actions
SavedState(h, fact, pend, cur_turn, think, first_done, counter, llm_turn) ==
    [present |-> TRUE,
     action_history |-> Serialized(h),
     action_history_fact |-> Serialized(fact),
     pending_tools |-> pend,
     current_turn |-> cur_turn,
     latest_thinking |-> think,
     first_thinking_done |-> first_done,
     tool_call_counter |-> counter,
     llm_turn_counter |-> llm_turn]

\* start_turn as run() holds it: an int, or (is_int = FALSE) the dict that
\* _load_state_from_storage returned
IntTurn(n) == [is_int |-> TRUE, n |-> n, d |-> NoResult]
DictTurn(d) == [is_int |-> FALSE, n |-> 0, d |-> d]

(* ------------------------- history variables -------------------------- *)
\* g only observes: counters that bound the exploration (runs, llm_total,
\* tool_total), how often ToolExecutor.execute has returned for each tool
\* call id over all invocations of run() (execs), what the current run() invocation has done so far
\* (executing is the tool execution whose result is not recorded yet,
\* ctr_at_resp the tool-call counter when the current response arrived,
\* cmp_fail which summarization call failed in the compression step of the
\* turn whose model call is due), what it returned, and how the process
\* ended (events are the events _handle_execution_error dispatched).
\* agent_id is the attribute self.agent_id as push_agent gave it, and calls
\* the calls of the current invocation to hierarchy_manager.push_agent and
\* pop_agent and its dispatches of AgentEndEvent, in the order made.
NoExec == [name |-> "", arguments |-> EmptyArgs, by |-> ""]

\* one more completed execution of the tool call `id`
Bump(f, id) ==
    IF id \in DOMAIN f THEN [f EXCEPT ![id] = @ + 1] ELSE f @@ (id :> 1)

HierarchyCall(op, id) == [op |-> op, agent_id |-> id, status |-> ""]
AgentEnd(status) == [op |-> "agent.end", agent_id |-> 0, status |-> status]

GInit ==
    [runs |-> 0, llm_total |-> 0, tool_total |-> 0,
     exit |-> "", ret |-> NoResult, ret_kind |-> "",
     loaded |-> FALSE, loaded_final |-> FALSE, loaded_pending |-> <<>>,
     rec_log |-> <<>>,
     run_llm |-> 0, run_tool_resp |-> 0, run_reminders |-> 0, run_forced |-> 0,
     run_periodic |-> 0, run_initial |-> 0,
     streak |-> 0, ctr_at_resp |-> 0,
     executing |-> NoExec, last_think |-> "", cmp_fail |-> {},
     events |-> <<>>, exit_status |-> 0, execs |-> <<>>,
     agent_id |-> 0, calls |-> <<>>]

\* the part of g that a new invocation of run() starts from
GNewRun(st) ==
    [GInit EXCEPT !.runs = g.runs + 1, !.llm_total = g.llm_total,
                  !.tool_total = g.tool_total, !.execs = g.execs,
                  !.agent_id = g.runs + 1,
                  !.calls = <<HierarchyCall("push", g.runs + 1)>>,
                  !.loaded = st.present,
                  !.loaded_final = IF st.present THEN HasFinalOutput(st.action_history_fact) ELSE FALSE,
                  !.loaded_pending = IF st.present THEN st.pending_tools ELSE <<>>]

(* ------------------------------ Init ---------------------------------- *)
Intervals == {1, 2}

\* AgentExecutor.__init__
FreshMemory ==
    /\ action_history = <<>>
    /\ action_history_fact = <<>>
    /\ pending_tools = <<>>
    /\ latest_thinking = ""
    /\ first_thinking_done = FALSE
    /\ tool_call_counter = 0
    /\ llm_turn_counter = 0

FreshLocals ==
    /\ turn = 0
    /\ start_turn = IntTurn(0)
    /\ max_tool_try = 0
    /\ tool_calls = <<>>
    /\ call_idx = 0
    /\ cur_args = EmptyArgs
    /\ tool_result = NoResult
    /\ rec_idx = 0

\* no compression under way, no observer registered, no event being
\* dispatched, no human task outstanding
ComponentsIdle ==
    /\ cmp = [pc |-> "idle"]
    /\ _handlers = <<>>
    /\ em = [pc |-> "idle"]
    /\ HIL_TASKS = <<>>
    /\ hil = [pc |-> "idle"]

\* a task nobody has run yet
Init ==
    /\ ComponentsIdle
    /\ FreshMemory
    /\ FreshLocals
    /\ thinking_interval \in Intervals
    /\ store = NoState
    /\ pc = "idle"
    /\ g = GInit

(* ------------------------------ run() --------------------------------- *)
\* the final_output check of lines 299-307 left out
LoadedStartTurn_NoFinalCheck(st) == IntTurn(st.current_turn + 1)

\* _load_state_from_storage, lines 290-307: the value it returns when the
\* store holds a state and no pending tool has to be recovered first
LoadedStartTurn(st) ==
    IF HasFinalOutput(st.action_history_fact)
    THEN DictTurn(FirstFinalResult(st.action_history_fact))
    ELSE IntTurn(st.current_turn + 1)

\* the initial reflection left out
AfterLoadPc_NoInitial(st, first_done) == IF ~st.is_int THEN "raised" ELSE "turn"

\* run(), lines 126-147: where control goes with the value load returned.
\* range(start_turn, max_turns) raises TypeError when start_turn is a dict.
AfterLoadPc(st, first_done) ==
    IF ~st.is_int THEN "raised"
    ELSE IF st.n = 0 /\ ~first_done THEN "init_think"
    ELSE "turn"

Terminated == pc \in {"returned", "raised", "exited"}

\* the recovery of lines 309-311 left out
NeedsRecovery_Never(pend) == FALSE

\* _load_state_from_storage, line 310
NeedsRecovery(pend) == pend # <<>>

\* run() up to the first external call after loading: push, load, the
\* final_output check, and the decision what comes next
RunWithin(max_runs) ==
    /\ pc = "idle" \/ Terminated
    /\ UNCHANGED components
    /\ g.runs < max_runs
    /\ g' = GNewRun(store)
    /\ max_tool_try' = 0
    /\ tool_calls' = <<>>
    /\ call_idx' = 0
    /\ cur_args' = EmptyArgs
    /\ tool_result' = NoResult
    /\ rec_idx' = 0
    /\ UNCHANGED <<store, thinking_interval>>
    /\ IF ~store.present
       THEN /\ action_history' = <<>>
            /\ action_history_fact' = <<>>
            /\ pending_tools' = <<>>
            /\ latest_thinking' = ""
            /\ first_thinking_done' = FALSE
            /\ tool_call_counter' = 0
            /\ llm_turn_counter' = 0
            /\ start_turn' = IntTurn(0)
            /\ turn' = 0
            /\ pc' = AfterLoadPc(IntTurn(0), FALSE)
       ELSE /\ action_history' = store.action_history
            /\ action_history_fact' = store.action_history_fact
            /\ pending_tools' = store.pending_tools
            /\ latest_thinking' = store.latest_thinking
            /\ first_thinking_done' = store.first_thinking_done
            /\ tool_call_counter' = store.tool_call_counter
            /\ llm_turn_counter' = store.llm_turn_counter
            /\ start_turn' = LoadedStartTurn(store)
            /\ turn' = start_turn'.n
            /\ pc' = IF start_turn'.is_int /\ NeedsRecovery(store.pending_tools)
                     THEN "recover"
                     ELSE AfterLoadPc(start_turn', store.first_thinking_done)

RunStart == RunWithin(MaxRuns)

(* ------------------------ _recover_pending_tools ---------------------- *)
\* ToolExecutor.execute raising instead of returning
ToolRaised == Result("raised", "", "")

Executed(name, args, by) == [name |-> name, arguments |-> args, by |-> by]

\* the arguments a replayed pending record is executed with
ReplayArguments(pending_tool) == pending_tool.arguments

\* the replayed record left in the list
RecoveredPending_Keep(pend, pending_tool) == pend

\* lines 809-820 for one pending record whose tool returned `res`: the
\* same dict goes to both lists, then list.remove(pending_tool)
RecoveredPending(pend, pending_tool) == RemoveFirst(pend, pending_tool)

\* the records whose replay failed are left in the list
PendingAfterRecovery_Keep(pend) == pend

\* line 836: the pending list once the loop over it has ended
PendingAfterRecovery(pend) == <<>>

\* One iteration of `for pending_tool in self.pending_tools` (rec_idx is
\* the position of the list iterator), and, when the iterator is then
\* exhausted or final_output was replayed, the rest of the method and the
\* return to run().
RecoverStep ==
    /\ pc = "recover"
    /\ UNCHANGED components
    /\ rec_idx < Len(pending_tools)
    /\ LET pending_tool == pending_tools[rec_idx + 1]
           tool_name == pending_tool.name
           tool_args == ReplayArguments(pending_tool)
       IN \E res \in ToolResults(tool_name) \cup {ToolRaised} :
            LET ok == res # ToolRaised
                action_record == ActionRecord(tool_name, tool_args, res, -1, 0,
                                              Len(action_history_fact) + 1)
                pend1 == IF ok THEN RecoveredPending(pending_tools, pending_tool)
                               ELSE pending_tools
                returned == ok /\ tool_name = "final_output"
                exhausted == rec_idx + 1 >= Len(pend1)
            IN /\ action_history_fact' =
                     IF ok THEN Append(action_history_fact, [action_record EXCEPT !.fact_ref = 0])
                           ELSE action_history_fact
               /\ action_history' =
                     IF ok THEN Append(action_history, action_record) ELSE action_history
               /\ pending_tools' = IF returned THEN pend1
                                   ELSE IF exhausted THEN PendingAfterRecovery(pend1)
                                   ELSE pend1
               /\ rec_idx' = rec_idx + 1
               /\ pc' = IF returned \/ exhausted
                        THEN AfterLoadPc(start_turn, first_thinking_done)
                        ELSE "recover"
               /\ g' = [g EXCEPT !.rec_log = Append(@, Executed(tool_name, tool_args, "replay")),
                                 !.execs = IF ok THEN Bump(@, pending_tool.id) ELSE @]
    /\ UNCHANGED <<latest_thinking, first_thinking_done, tool_call_counter,
                   llm_turn_counter, thinking_interval, store, turn, start_turn,
                   max_tool_try, tool_calls, call_idx, cur_args, tool_result>>

(* ----------------------------- thinking ------------------------------- *)
Save(cur_turn) ==
    SavedState(action_history, action_history_fact, pending_tools, cur_turn,
               latest_thinking, first_thinking_done, tool_call_counter,
               llm_turn_counter)

\* run(), lines 128-138: the initial reflection returned `out`
InitialThinking ==
    /\ pc = "init_think"
    /\ UNCHANGED components
    /\ \E out \in ThinkOutputs :
         /\ IF out # ""
            THEN /\ latest_thinking' = out
                 /\ first_thinking_done' = TRUE
                 /\ store' = SavedState(action_history, action_history_fact,
                                        pending_tools, 0, out, TRUE,
                                        tool_call_counter, llm_turn_counter)
            ELSE UNCHANGED <<latest_thinking, first_thinking_done, store>>
         /\ g' = [g EXCEPT !.run_initial = @ + 1, !.last_think = out]
    /\ pc' = "turn"
    /\ UNCHANGED <<action_history, action_history_fact, pending_tools,
                   tool_call_counter, llm_turn_counter, thinking_interval, locals>>

(* ----------------------------- the loop ------------------------------- *)
TimeoutResult == Result("error", "max_turns_exceeded", "Max turns exceeded")
\* the failure of the model call handed back as a success
LlmErrorResult_Success == Result("success", "llm_call_failed", "llm_error")

\* lines 177-181
LlmErrorResult == Result("error", "llm_call_failed", "llm_error")
ForcedResult(out) ==
    Result("error", IF out # "" THEN out ELSE "no_tool_call_repeatedly", "agent_refused_tools")

\* the agent left on the hierarchy stack when run() returns
ReturnCalls_NoPop(kind, id) ==
    <<AgentEnd(IF kind = "final" THEN "success" ELSE "error")>>

\* lines 182-183, 222-223, 243-244 and 269-270: what run() calls on the
\* hierarchy manager and dispatches as AgentEndEvent right before a return
ReturnCalls(kind, id) ==
    IF kind = "final"
    THEN <<AgentEnd("success"), HierarchyCall("pop", id)>>
    ELSE <<HierarchyCall("pop", id), AgentEnd("error")>>

\* line 147 and what follows it: with the range exhausted the loop is left
\* and lines 264-275 return the timeout result; otherwise lines 153-171
\* save and then compress the rendered history
TurnBegin ==
    /\ pc = "turn"
    /\ UNCHANGED components
    /\ IF turn >= max_turns
       THEN /\ pc' = "returned"
            /\ g' = [g EXCEPT !.ret = TimeoutResult, !.ret_kind = "timeout",
                              !.calls = @ \o ReturnCalls("timeout", g.agent_id)]
            /\ UNCHANGED <<mem, thinking_interval, store, locals>>
       ELSE /\ store' = Save(turn)
            /\ \E sout \in SummaryOutputs, fout \in FieldOutputs, raised \in BOOLEAN :
                 /\ raised => action_history # <<>>
                 /\ action_history' =
                      IF raised THEN HistoryAfterCompressionRaised(action_history)
                      ELSE CompressedHistory(action_history, sout, fout)
                 /\ action_history_fact' =
                      IF raised THEN action_history_fact
                      ELSE CompressedFact(action_history, action_history_fact, sout, fout)
                 /\ g' = [g EXCEPT !.cmp_fail =
                                      CompressionFailure(action_history, sout, fout, raised)]
            /\ pc' = "llm"
            /\ UNCHANGED <<pending_tools, latest_thinking, first_thinking_done,
                           tool_call_counter, llm_turn_counter, thinking_interval,
                           locals>>

\* lines 176-184: the model call reports a failure
LlmFailure ==
    /\ pc = "llm"
    /\ UNCHANGED components
    /\ g.llm_total < MaxLlmCalls
    /\ pc' = "returned"
    /\ g' = [g EXCEPT !.cmp_fail = {}, !.llm_total = @ + 1, !.run_llm = @ + 1,
                      !.ret = LlmErrorResult, !.ret_kind = "llm_error",
                      !.calls = @ \o ReturnCalls("llm_error", g.agent_id)]
    /\ UNCHANGED <<mem, thinking_interval, store, locals>>

\* one reminder too many
RemindAgain_OffByOne(tries) == tries <= max_no_tool_reminders

\* line 189: is another reminder recorded
RemindAgain(tries) == tries < max_no_tool_reminders

reminder_action(n, llm_turn) ==
    ActionRecord("_no_tool_call", EmptyArgs, Result("error", ReminderOutput(n), ""),
                 llm_turn, 0, 0)

\* lines 186-207: a response without tool calls, reminder branch
LlmNoToolCallRemind ==
    /\ pc = "llm"
    /\ UNCHANGED components
    /\ g.llm_total < MaxLlmCalls
    /\ RemindAgain(max_tool_try)
    /\ max_tool_try' = max_tool_try + 1
    /\ action_history' = Append(action_history,
                                reminder_action(max_tool_try + 1, llm_turn_counter))
    /\ llm_turn_counter' = llm_turn_counter + 1
    /\ store' = SavedState(action_history', action_history_fact, pending_tools, turn,
                           latest_thinking, first_thinking_done, tool_call_counter,
                           llm_turn_counter')
    /\ turn' = turn + 1
    /\ pc' = "turn"
    /\ g' = [g EXCEPT !.cmp_fail = {}, !.llm_total = @ + 1, !.run_llm = @ + 1,
                      !.run_reminders = @ + 1, !.streak = @ + 1]
    /\ UNCHANGED <<action_history_fact, pending_tools, latest_thinking,
                   first_thinking_done, tool_call_counter, thinking_interval,
                   start_turn, tool_calls, call_idx, cur_args, tool_result, rec_idx>>

\* lines 208-215: a response without tool calls after the reminders are used up
LlmNoToolCallForce ==
    /\ pc = "llm"
    /\ UNCHANGED components
    /\ g.llm_total < MaxLlmCalls
    /\ ~RemindAgain(max_tool_try)
    /\ pc' = "forced"
    /\ g' = [g EXCEPT !.cmp_fail = {}, !.llm_total = @ + 1, !.run_llm = @ + 1, !.streak = @ + 1]
    /\ UNCHANGED <<mem, thinking_interval, store, locals>>

\* lines 210-225: the forced reflection returned `out`
ForcedThinking ==
    /\ pc = "forced"
    /\ UNCHANGED components
    /\ \E out \in ThinkOutputs :
         g' = [g EXCEPT !.run_forced = @ + 1, !.last_think = out,
                        !.ret = ForcedResult(out), !.ret_kind = "forced",
                        !.calls = @ \o ReturnCalls("forced", g.agent_id)]
    /\ pc' = "returned"
    /\ UNCHANGED <<mem, thinking_interval, store, locals>>

(* ---------------------------- tool calls ------------------------------ *)
\* the tool_calls lists a model response may carry, before ids are given
Responses ==
    UNION { [1..n -> ToolRequests] : n \in 1..MaxPerResponse }

\* tool calls of one response, with ids no earlier call had
WithIds(resp, first_id) ==
    [i \in 1..Len(resp) |->
        [id |-> first_id + i - 1, name |-> resp[i].name, arguments |-> resp[i].arguments]]

\* the counter of reminders not reset
TriesAfterToolCall_Keep(tries) == tries

\* line 227
TriesAfterToolCall(tries) == 0

\* lines 186, 226-232: a response with at least one tool call
LlmToolCalls ==
    /\ pc = "llm"
    /\ UNCHANGED components
    /\ g.llm_total < MaxLlmCalls
    /\ g.run_llm < MaxToolTurn
    /\ \E resp \in Responses :
         /\ g.tool_total + Len(resp) <= MaxToolCalls
         /\ tool_calls' = WithIds(resp, g.tool_total + 1)
         /\ g' = [g EXCEPT !.cmp_fail = {}, !.llm_total = @ + 1, !.run_llm = @ + 1,
                           !.tool_total = @ + Len(resp),
                           !.run_tool_resp = @ + 1, !.streak = 0,
                           !.ctr_at_resp = tool_call_counter]
    /\ max_tool_try' = TriesAfterToolCall(max_tool_try)
    /\ call_idx' = 1
    /\ pc' = "dispatch"
    /\ UNCHANGED <<mem, thinking_interval, store, turn, start_turn, cur_args,
                   tool_result, rec_idx>>

\* _add_uuid_if_needed, lines 669-690 ("task_input" in arguments is
\* arguments # <<>>)
_add_uuid_if_needed(tool_name, arguments, uuid) ==
    IF tool_type(tool_name) = "llm_call_agent" /\ tool_level(tool_name) # 0
       /\ arguments # EmptyArgs
    THEN Append(arguments, uuid)
    ELSE arguments

\* the pending record written with the arguments as the model gave them
PendingArguments_Raw(tool_call, arguments_with_uuid) == tool_call.arguments

\* _execute_tool_call, line 513: the arguments written to the pending record
PendingArguments(tool_call, arguments_with_uuid) == arguments_with_uuid

\* _execute_tool_call, lines 501-517: suffix, register as pending, save
DispatchTool ==
    /\ pc = "dispatch"
    /\ UNCHANGED components
    /\ LET tool_call == tool_calls[call_idx] IN
       \E uuid \in Uuids :
         LET arguments_with_uuid ==
                 _add_uuid_if_needed(tool_call.name, tool_call.arguments, uuid)
         IN /\ cur_args' = arguments_with_uuid
            /\ pending_tools' =
                 Append(pending_tools,
                        PendingRecord(tool_call.id, tool_call.name,
                                      PendingArguments(tool_call, arguments_with_uuid)))
    /\ store' = SavedState(action_history, action_history_fact, pending_tools', turn,
                           latest_thinking, first_thinking_done, tool_call_counter,
                           llm_turn_counter)
    /\ pc' = "exec"
    /\ UNCHANGED <<action_history, action_history_fact, latest_thinking,
                   first_thinking_done, tool_call_counter, llm_turn_counter,
                   thinking_interval, turn, start_turn, max_tool_try, tool_calls,
                   call_idx, tool_result, rec_idx, g>>

\* _execute_tool_call, lines 520-524: the tool runs and returns
ExecuteTool ==
    /\ pc = "exec"
    /\ UNCHANGED components
    /\ \E res \in ToolResults(tool_calls[call_idx].name) : tool_result' = res
    /\ g' = [g EXCEPT !.executing = Executed(tool_calls[call_idx].name, cur_args, "dispatch"),
                      !.execs = Bump(@, tool_calls[call_idx].id)]
    /\ pc' = "record"
    /\ UNCHANGED <<mem, thinking_interval, store, turn, start_turn, max_tool_try,
                   tool_calls, call_idx, cur_args, rec_idx>>

\* the loop stopped by any tool whose result reports an error
EndsRun_OnError(tool_call, final_output_result) ==
    tool_call.name = "final_output" \/ final_output_result.status = "error"

\* the loop stopped only by a final_output that succeeded
EndsRun_OnSuccessOnly(tool_call, final_output_result) ==
    tool_call.name = "final_output" /\ final_output_result.status = "success"

\* run(), line 242: does the loop over tool_calls stop with this call
\* (a result dict with keys is truthy)
EndsRun(tool_call, final_output_result) == tool_call.name = "final_output"

\* _execute_tool_call, lines 527-617, and run(), lines 242-247: settle the
\* pending record, append to both lists, save, count; then return, go on to
\* the next tool call, or end the turn
RecordTool ==
    /\ pc = "record"
    /\ UNCHANGED components
    /\ LET tool_call == tool_calls[call_idx]
           fact_record == ActionRecord(tool_call.name, cur_args, tool_result,
                                       llm_turn_counter, tool_call.id, 0)
           action_record == [fact_record EXCEPT !.fact_ref = Len(action_history_fact) + 1]
       IN /\ pending_tools' = RemoveById(pending_tools, tool_call.id)
          /\ action_history_fact' = Append(action_history_fact, fact_record)
          /\ action_history' = Append(action_history, action_record)
          /\ store' = SavedState(action_history', action_history_fact', pending_tools',
                                 turn, latest_thinking, first_thinking_done,
                                 tool_call_counter, llm_turn_counter)
          /\ tool_call_counter' = tool_call_counter + 1
          /\ IF EndsRun(tool_call, tool_result)
             THEN /\ pc' = "returned"
                  /\ g' = [g EXCEPT !.ret = tool_result, !.ret_kind = "final",
                                    !.executing = NoExec,
                                    !.calls = @ \o ReturnCalls("final", g.agent_id)]
                  /\ UNCHANGED <<call_idx, llm_turn_counter>>
             ELSE IF call_idx < Len(tool_calls)
             THEN /\ pc' = "dispatch"
                  /\ call_idx' = call_idx + 1
                  /\ g' = [g EXCEPT !.executing = NoExec]
                  /\ UNCHANGED llm_turn_counter
             ELSE /\ pc' = "reflect"
                  /\ llm_turn_counter' = llm_turn_counter + 1
                  /\ g' = [g EXCEPT !.executing = NoExec]
                  /\ UNCHANGED call_idx
    /\ UNCHANGED <<latest_thinking, first_thinking_done, thinking_interval, turn,
                   start_turn, max_tool_try, tool_calls, cur_args, tool_result, rec_idx>>

(* ------------------------ periodic reflection ------------------------- *)
\* the boundary test with <= for <
crossed_boundary_Leq(counter_before, counter, interval) ==
    (counter_before \div interval) <= (counter \div interval)

\* lines 251-253
crossed_boundary(counter_before, counter, interval) ==
    (counter_before \div interval) < (counter \div interval)

ShouldReflect ==
    /\ tool_call_counter > 0
    /\ crossed_boundary(tool_call_counter - Len(tool_calls), tool_call_counter,
                        thinking_interval)

\* the rendered history kept after a reflection
HistoryAfterReflection_Keep(h) == h

\* lines 259-260: the rendered history after a reflection with output
HistoryAfterReflection(h) == <<>>

\* lines 253-260: the reflection is triggered and returned `out`
TurnEndReflect ==
    /\ pc = "reflect"
    /\ UNCHANGED components
    /\ ShouldReflect
    /\ \E out \in ThinkOutputs :
         /\ IF out # ""
            THEN /\ latest_thinking' = out
                 /\ store' = SavedState(action_history, action_history_fact,
                                        pending_tools, turn, out, first_thinking_done,
                                        tool_call_counter, llm_turn_counter)
                 /\ action_history' = HistoryAfterReflection(action_history)
                 /\ llm_turn_counter' = 0
            ELSE UNCHANGED <<latest_thinking, store, action_history, llm_turn_counter>>
         /\ g' = [g EXCEPT !.run_periodic = @ + 1, !.last_think = out,
                           !.ctr_at_resp = 0]
    /\ turn' = turn + 1
    /\ pc' = "turn"
    /\ UNCHANGED <<action_history_fact, pending_tools, first_thinking_done,
                   tool_call_counter, thinking_interval, start_turn, max_tool_try,
                   tool_calls, call_idx, cur_args, tool_result, rec_idx>>

\* line 253 false: the turn ends without a reflection
TurnEndPlain ==
    /\ pc = "reflect"
    /\ UNCHANGED components
    /\ ~ShouldReflect
    /\ turn' = turn + 1
    /\ pc' = "turn"
    /\ g' = [g EXCEPT !.ctr_at_resp = 0]
    /\ UNCHANGED <<mem, thinking_interval, store, start_turn, max_tool_try,
                   tool_calls, call_idx, cur_args, tool_result, rec_idx>>

(* --------------------------- process exit ----------------------------- *)
\* program points with an external call inside run()'s try blocks
InTry == pc \in {"init_think", "llm", "dispatch", "exec", "record", "forced"}
            \/ (pc = "turn" /\ turn < max_turns)
            \/ (pc = "reflect" /\ ShouldReflect)

\* no event dispatched before the exit
FatalEvents_None(kind) == <<>>

\* _handle_execution_error, line 650: the events it dispatches (none when
\* the process is killed from outside)
FatalEvents(kind) == IF kind = "fatal" THEN <<"system.error">> ELSE <<>>

\* line 652: sys.exit(1); -1 stands for a process killed from outside
ExitStatus(kind) == IF kind = "fatal" THEN 1 ELSE -1

Dead(kind) ==
    /\ pc' = "exited"
    /\ UNCHANGED components
    /\ g' = [GInit EXCEPT !.runs = g.runs, !.llm_total = g.llm_total,
                          !.tool_total = g.tool_total, !.execs = g.execs,
                          !.exit = kind,
                          !.events = FatalEvents(kind),
                          !.exit_status = ExitStatus(kind)]
    /\ action_history' = <<>>
    /\ action_history_fact' = <<>>
    /\ pending_tools' = <<>>
    /\ latest_thinking' = ""
    /\ first_thinking_done' = FALSE
    /\ tool_call_counter' = 0
    /\ llm_turn_counter' = 0
    /\ turn' = 0
    /\ start_turn' = IntTurn(0)
    /\ max_tool_try' = 0
    /\ tool_calls' = <<>>
    /\ call_idx' = 0
    /\ cur_args' = EmptyArgs
    /\ tool_result' = NoResult
    /\ rec_idx' = 0
    /\ UNCHANGED <<thinking_interval, store>>

\* lines 139-140, 262-263 and _handle_execution_error: an external call
\* raised inside a try block of run(); sys.exit(1)
Fatal ==
    /\ InTry
    /\ Dead("fatal")

\* the process is interrupted from outside while run() is active
Kill ==
    /\ pc \in {"recover", "init_think", "turn", "llm", "dispatch", "exec",
               "record", "reflect", "forced"}
    /\ Dead("killed")

(* --------------------------- specification ---------------------------- *)
Next ==
    \/ RunStart
    \/ RecoverStep
    \/ InitialThinking
    \/ TurnBegin
    \/ LlmFailure
    \/ LlmNoToolCallRemind
    \/ LlmNoToolCallForce
    \/ ForcedThinking
    \/ LlmToolCalls
    \/ DispatchTool
    \/ ExecuteTool
    \/ RecordTool
    \/ TurnEndReflect
    \/ TurnEndPlain
    \/ Fatal
    \/ Kill

Spec == Init /\ [][Next]_vars

(* ------------------------- interrupted runs ---------------------------- *)
\* The behaviours in which the model always answers with tool calls, no
\* external call raises, and the process may be interrupted at any point
\* and run() invoked again, up to MaxCrashRuns times.
RunAgain == RunWithin(MaxCrashRuns)

InitCrash ==
    /\ ComponentsIdle
    /\ FreshMemory
    /\ FreshLocals
    /\ thinking_interval = 2
    /\ store = NoState
    /\ pc = "idle"
    /\ g = GInit

NextCrash ==
    \/ RunAgain
    \/ RecoverStep
    \/ InitialThinking
    \/ TurnBegin
    \/ LlmToolCalls
    \/ DispatchTool
    \/ ExecuteTool
    \/ RecordTool
    \/ TurnEndReflect
    \/ TurnEndPlain
    \/ Kill

SpecCrash == InitCrash /\ [][NextCrash]_vars

(* ------------------- runs that find a state in the store --------------- *)
\* Records ConversationStorage.load_actions may hand to the first run: the
\* store is keyed storage outside the executor, and the first run takes
\* whatever it holds.
StoredPendings ==
    { PendingRecord(101, "file_read", <<"in">>),
      PendingRecord(102, "sub_agent", <<"in", "call-1">>),
      PendingRecord(103, "final_output", EmptyArgs) }

RECURSIVE DistinctSeqs(_, _)
\* the sequences of at most n distinct elements of S
DistinctSeqs(S, n) ==
    IF n = 0 THEN {<<>>}
    ELSE {<<>>} \cup { <<x>> \o t : x \in S, t \in DistinctSeqs(S, n - 1) }

NoDuplicates(q) == \A i, j \in 1..Len(q) : i # j => q[i] # q[j]

StoredPendingLists ==
    { q \in DistinctSeqs(StoredPendings, MaxStoredPending) : NoDuplicates(q) }

StoredPrior == ActionRecord("file_read", <<"in">>, Result("success", "ok", ""), 0, 100, 0)
StoredFinal(res) == ActionRecord("final_output", EmptyArgs, res, 1, 99, 0)

StoredStates ==
    { SavedState(<<StoredPrior>>, <<StoredPrior>>, q, t, "plan_a", TRUE, c, 1) :
          q \in StoredPendingLists,
          t \in {0, max_turns - 2},
          c \in {1, thinking_interval_default - 1} }
    \cup
    { SavedState(<<StoredPrior, StoredFinal(res)>>, <<StoredPrior, StoredFinal(res)>>,
                 q, 1, "plan_a", TRUE, 1, 2) :
          res \in ToolResults("final_output"),
          q \in { r \in StoredPendingLists : Len(r) <= 1 } }

\* the first run finds a stored state; it is the last run explored, and
\* the model calls and tool calls left to it are few
InitStored ==
    /\ ComponentsIdle
    /\ FreshMemory
    /\ FreshLocals
    /\ thinking_interval \in {2, thinking_interval_default}
    /\ store \in StoredStates
    /\ pc = "idle"
    /\ g = [GInit EXCEPT !.runs = MaxRuns - 1, !.llm_total = MaxLlmCalls - 2,
                         !.tool_total = MaxToolCalls - 1]

InitLoaded ==
    \/ InitStored
    \/ /\ ComponentsIdle
       /\ FreshMemory
       /\ FreshLocals
       /\ thinking_interval = 2
       /\ store = NoState
       /\ pc = "idle"
       /\ g = [GInit EXCEPT !.runs = MaxRuns - 1]

SpecLoaded == InitLoaded /\ [][Next]_vars

(* ------------------------ the event emitter --------------------------- *)
\* core/agent_event_emitter.py on its own: observers are registered and
\* events dispatched while the executor is at rest.
executor == <<mem, thinking_interval, store, pc, locals, g>>

ExecutorIdle ==
    /\ FreshMemory
    /\ FreshLocals
    /\ thinking_interval = thinking_interval_default
    /\ store = NoState
    /\ pc = "idle"
    /\ g = GInit

\* observers offered for registration over one behaviour
MaxHandlers == 3
\* calls of dispatch over one behaviour
MaxDispatches == 2

\* ConsoleLogHandler and JsonlStreamHandler (agent_executor.py 104, 108)
\* and one more observer
Handlers == {"console", "jsonl", "custom"}
EmitterEvents == {"agent.start", "system.error"}

IsRegistered(handlers, handler) == \E k \in 1..Len(handlers) : handlers[k] = handler

\* the observer appended whether or not it is in the list
register_Always(handlers, handler) == Append(handlers, handler)

\* AgentEventEmitter.register, lines 39-40
register(handlers, handler) ==
    IF IsRegistered(handlers, handler) THEN handlers ELSE Append(handlers, handler)

\* the exception of an observer leaving dispatch
Propagates_Uncaught(outcome) == outcome = "exception"

\* dispatch, lines 50-55: `except Exception` around handler.handle(event);
\* does what the observer did leave the for loop
Propagates(outcome) == FALSE

\* what handler.handle(event) may do
HandleOutcomes == {"ok", "exception"}

\* em: pc, event and i are dispatch's position, argument and the number of
\* observers its for loop has visited; received logs the handle() calls of
\* the current dispatch, raised the positions whose observer raised;
\* registered is the order in which observers were first registered, and
\* observers what it was when the current dispatch was called
EmitterFresh ==
    [pc |-> "idle", event |-> "", i |-> 0, received |-> <<>>, raised |-> {},
     dispatches |-> 0, registered |-> <<>>, observers |-> <<>>]

InitEmitter ==
    /\ ExecutorIdle
    /\ cmp = [pc |-> "idle"]
    /\ HIL_TASKS = <<>>
    /\ hil = [pc |-> "idle"]
    /\ _handlers = <<>>
    /\ em = EmitterFresh

\* AgentEventEmitter.register(handler)
Register ==
    /\ em.pc \in {"idle", "returned"}
    /\ Len(_handlers) < MaxHandlers
    /\ \E handler \in Handlers :
         /\ _handlers' = register(_handlers, handler)
         /\ em' = [em EXCEPT !.registered =
                        IF IsRegistered(@, handler) THEN @ ELSE Append(@, handler)]
    /\ UNCHANGED <<executor, cmp, HIL_TASKS, hil>>

\* dispatch(event) is called
DispatchBegin ==
    /\ em.pc \in {"idle", "returned"}
    /\ em.dispatches < MaxDispatches
    /\ \E event \in EmitterEvents :
         em' = [em EXCEPT !.pc = "dispatching", !.event = event, !.i = 0,
                          !.received = <<>>, !.raised = {},
                          !.observers = em.registered,
                          !.dispatches = @ + 1]
    /\ UNCHANGED <<executor, cmp, _handlers, HIL_TASKS, hil>>

\* one iteration of `for handler in self._handlers`
HandleNext ==
    /\ em.pc = "dispatching"
    /\ em.i < Len(_handlers)
    /\ \E outcome \in HandleOutcomes :
         em' = [em EXCEPT
                  !.received = Append(@, [handler |-> _handlers[em.i + 1],
                                          event |-> em.event]),
                  !.raised = IF outcome = "exception" THEN @ \cup {em.i + 1} ELSE @,
                  !.i = @ + 1,
                  !.pc = IF Propagates(outcome) THEN "raised_out" ELSE @]
    /\ UNCHANGED <<executor, cmp, _handlers, HIL_TASKS, hil>>

\* the for loop is exhausted and dispatch returns
DispatchEnd ==
    /\ em.pc = "dispatching"
    /\ em.i = Len(_handlers)
    /\ em' = [em EXCEPT !.pc = "returned"]
    /\ UNCHANGED <<executor, cmp, _handlers, HIL_TASKS, hil>>

NextEmitter ==
    \/ Register
    \/ DispatchBegin
    \/ HandleNext
    \/ DispatchEnd

SpecEmitter == InitEmitter /\ [][NextEmitter]_vars

(* ---------------------- the human-in-the-loop tool -------------------- *)
\* tool_server_lite/tools/human_tools.py: one call of
\* HumanInLoopTool.execute_async at a time (the turn loop awaits the tool),
\* interleaved at its await with complete_hil_task and cancel_hil_task, and
\* the hand-over of the tool's result to the turn loop.

\* calls of the tool over one behaviour
MaxHilCalls == 2
\* calls of complete_hil_task and cancel_hil_task over one behaviour
MaxEndpointCalls == 2
\* seconds a wait without timeout is followed for
MaxElapsed == 6

\* line 57
check_interval == 2
\* timeout = None (line 31)
NoTimeout == -1

HilIds == {"h1", "h2"}
HilTimeouts == {NoTimeout, 3}

\* lines 48-53 (instruction and task_id play no part)
HilTask(status, result) == [status |-> status, result |-> result]

\* d[key] = value on a dict
Put(d, key, value) ==
    [k \in DOMAIN d \cup {key} |-> IF k = key THEN value ELSE d[k]]

\* del d[key]
Del(d, key) == [k \in DOMAIN d \ {key} |-> d[k]]

\* the expiry of the wait reported as a success
timeout_result_Success(timeout) == Result("success", "", "Human task timeout")

\* lines 65-69
timeout_result(timeout) == Result("error", "", "Human task timeout")

\* lines 61-63
Expired(elapsed, timeout) == timeout # NoTimeout /\ elapsed > timeout

\* the tool call the turn loop made
HilToolCall == [id |-> 1, name |-> "human_in_loop", arguments |-> <<"in">>]

\* hil: pc, hil_id, timeout, elapsed and result are the coroutine's position,
\* parameters, clock reading and return value; timed_out tells that it
\* returned from line 65; loop and recorded are what the turn loop did with
\* the result; calls and endpoint_calls bound the exploration
HilFresh ==
    [pc |-> "idle", hil_id |-> "", timeout |-> NoTimeout, elapsed |-> 0,
     result |-> NoResult, timed_out |-> FALSE, loop |-> "", recorded |-> <<>>,
     calls |-> 0, endpoint_calls |-> 0]

InitHil ==
    /\ ExecutorIdle
    /\ cmp = [pc |-> "idle"]
    /\ _handlers = <<>>
    /\ em = [pc |-> "idle"]
    /\ HIL_TASKS = <<>>
    /\ hil = HilFresh

\* execute_async, lines 28-57: parameters checked, the task registered
HilExecute ==
    /\ hil.pc = "idle"
    /\ hil.calls < MaxHilCalls
    /\ \E hil_id \in HilIds \cup {""}, timeout \in HilTimeouts :
         IF hil_id = ""
         THEN /\ hil' = [hil EXCEPT !.pc = "returned", !.hil_id = hil_id,
                                    !.timeout = timeout, !.elapsed = 0,
                                    !.result = Result("error", "", "hil_id is required"),
                                    !.timed_out = FALSE, !.loop = "",
                                    !.recorded = <<>>, !.calls = @ + 1]
              /\ UNCHANGED HIL_TASKS
         ELSE /\ HIL_TASKS' = Put(HIL_TASKS, hil_id, HilTask("waiting", ""))
              /\ hil' = [hil EXCEPT !.pc = "polling", !.hil_id = hil_id,
                                    !.timeout = timeout, !.elapsed = 0,
                                    !.result = NoResult, !.timed_out = FALSE,
                                    !.loop = "", !.recorded = <<>>,
                                    !.calls = @ + 1]
    /\ UNCHANGED <<executor, cmp, _handlers, em>>

\* one iteration of `while True`, lines 59-95, up to the return or through
\* the sleep
HilPoll ==
    /\ hil.pc = "polling"
    /\ LET task == HIL_TASKS[hil.hil_id] IN
       IF Expired(hil.elapsed, hil.timeout)
       THEN /\ HIL_TASKS' = [HIL_TASKS EXCEPT ![hil.hil_id].status = "timeout"]
            /\ hil' = [hil EXCEPT !.pc = "returned", !.timed_out = TRUE,
                                  !.result = timeout_result(hil.timeout)]
       ELSE IF task.status = "completed"
       THEN /\ HIL_TASKS' = Del(HIL_TASKS, hil.hil_id)
            /\ hil' = [hil EXCEPT !.pc = "returned",
                                  !.result = Result("success", task.result, "")]
       ELSE IF task.status = "cancelled"
       THEN /\ HIL_TASKS' = Del(HIL_TASKS, hil.hil_id)
            /\ hil' = [hil EXCEPT !.pc = "returned",
                                  !.result = Result("success", task.result, "")]
       ELSE /\ hil.elapsed < MaxElapsed
            /\ hil' = [hil EXCEPT !.elapsed = @ + check_interval]
            /\ UNCHANGED HIL_TASKS
    /\ UNCHANGED <<executor, cmp, _handlers, em>>

\* complete_hil_task(hil_id), lines 126-142
complete_hil_task ==
    /\ hil.endpoint_calls < MaxEndpointCalls
    /\ \E hil_id \in HilIds :
         HIL_TASKS' = IF hil_id \in DOMAIN HIL_TASKS
                      THEN Put(HIL_TASKS, hil_id, HilTask("completed", "done"))
                      ELSE HIL_TASKS
    /\ hil' = [hil EXCEPT !.endpoint_calls = @ + 1]
    /\ UNCHANGED <<executor, cmp, _handlers, em>>

\* cancel_hil_task(hil_id), lines 145-161
cancel_hil_task ==
    /\ hil.endpoint_calls < MaxEndpointCalls
    /\ \E hil_id \in HilIds :
         HIL_TASKS' = IF hil_id \in DOMAIN HIL_TASKS
                      THEN Put(HIL_TASKS, hil_id, HilTask("cancelled", "no"))
                      ELSE HIL_TASKS
    /\ hil' = [hil EXCEPT !.endpoint_calls = @ + 1]
    /\ UNCHANGED <<executor, cmp, _handlers, em>>

\* agent_executor.py, lines 520-547 and 242: the turn loop gets the value
\* the tool returned, records it as an action and goes on or stops
HilResultRecorded ==
    /\ hil.pc = "returned"
    /\ hil' = [hil EXCEPT
                 !.pc = "idle",
                 !.recorded = ActionRecord(HilToolCall.name, HilToolCall.arguments,
                                           hil.result, 0, HilToolCall.id, 0),
                 !.loop = IF EndsRun(HilToolCall, hil.result)
                          THEN "ended" ELSE "continues"]
    /\ UNCHANGED <<executor, cmp, _handlers, em, HIL_TASKS>>

NextHil ==
    \/ HilExecute
    \/ HilPoll
    \/ complete_hil_task
    \/ cancel_hil_task
    \/ HilResultRecorded

SpecHil == InitHil /\ [][NextHil]_vars

(* ------------------ two waits on one human task ----------------------- *)
\* Two calls of HumanInLoopTool.execute_async with the same hil_id, each a
\* coroutine of the tool server's event loop that yields at its sleep, and
\* one call of complete_hil_task while both wait.
Waiters == {1, 2}
SharedHilId == "h1"

\* str(e) of the KeyError raised by HIL_TASKS[hil_id] on a missing key
KeyErrorResult == Result("error", "", "KeyError")

WaiterFresh ==
    [pc |-> "idle", timeout |-> NoTimeout, elapsed |-> 0, result |-> NoResult]

InitHilPair ==
    /\ ExecutorIdle
    /\ cmp = [pc |-> "idle"]
    /\ _handlers = <<>>
    /\ em = [pc |-> "idle"]
    /\ HIL_TASKS = <<>>
    /\ hil = [pc |-> "pair", waiters |-> [w \in Waiters |-> WaiterFresh],
              completions |-> 0]

\* execute_async, lines 28-57, called for waiter w
WaiterExecute(w) ==
    /\ hil.waiters[w].pc = "idle"
    /\ \E timeout \in HilTimeouts :
         hil' = [hil EXCEPT !.waiters[w] =
                    [WaiterFresh EXCEPT !.pc = "polling", !.timeout = timeout]]
    /\ HIL_TASKS' = Put(HIL_TASKS, SharedHilId, HilTask("waiting", ""))
    /\ UNCHANGED <<executor, cmp, _handlers, em>>

\* one iteration of `while True` of waiter w, lines 59-95, up to a return
\* or through the sleep; the assignment of line 64 on a missing key raises
\* KeyError, which the handler of lines 97-105 turns into an error result
WaiterPoll(w) ==
    /\ hil.waiters[w].pc = "polling"
    /\ LET me == hil.waiters[w]
           present == SharedHilId \in DOMAIN HIL_TASKS
       IN IF Expired(me.elapsed, me.timeout)
          THEN IF present
               THEN /\ HIL_TASKS' = [HIL_TASKS EXCEPT ![SharedHilId].status = "timeout"]
                    /\ hil' = [hil EXCEPT !.waiters[w].pc = "returned",
                                          !.waiters[w].result = timeout_result(me.timeout)]
               ELSE /\ hil' = [hil EXCEPT !.waiters[w].pc = "returned",
                                          !.waiters[w].result = KeyErrorResult]
                    /\ UNCHANGED HIL_TASKS
          ELSE IF present /\ HIL_TASKS[SharedHilId].status \in {"completed", "cancelled"}
          THEN /\ HIL_TASKS' = Del(HIL_TASKS, SharedHilId)
               /\ hil' = [hil EXCEPT
                            !.waiters[w].pc = "returned",
                            !.waiters[w].result =
                                Result("success", HIL_TASKS[SharedHilId].result, "")]
          ELSE /\ me.elapsed < MaxElapsed
               /\ hil' = [hil EXCEPT !.waiters[w].elapsed = @ + check_interval]
               /\ UNCHANGED HIL_TASKS
    /\ UNCHANGED <<executor, cmp, _handlers, em>>

\* complete_hil_task(hil_id), lines 126-142, called once while both wait
CompleteShared ==
    /\ hil.completions = 0
    /\ \A w \in Waiters : hil.waiters[w].pc = "polling"
    /\ HIL_TASKS' = IF SharedHilId \in DOMAIN HIL_TASKS
                    THEN Put(HIL_TASKS, SharedHilId, HilTask("completed", "done"))
                    ELSE HIL_TASKS
    /\ hil' = [hil EXCEPT !.completions = 1]
    /\ UNCHANGED <<executor, cmp, _handlers, em>>

NextHilPair ==
    \/ \E w \in Waiters : WaiterExecute(w)
    \/ \E w \in Waiters : WaiterPoll(w)
    \/ CompleteShared

\* the event loop resumes each sleeping coroutine again and again
SpecHilPair ==
    /\ InitHilPair
    /\ [][NextHilPair]_vars
    /\ \A w \in Waiters : WF_vars(WaiterPoll(w))

(* --------------------- the compressor on its own ---------------------- *)
\* services/action_compressor.py, ActionCompressor.compress_if_needed called
\* once on a history whose actions carry several fields.  A text is known
\* by its token count (count_tokens) and by how it came about.

\* actions before the most recent one in an input history
MaxHistorical == 2

\* line 99
summary_target_tokens == 5000
\* line 188
summary_overhead_tokens == 2000
\* line 528
field_overhead_tokens == 1000

Text(tokens, form) == [tokens |-> tokens, form |-> form, parts |-> <<>>]
CAction(name, args, out) == [tool_name |-> name, arguments |-> args, output |-> out]

\* the texts _compress_action_fields looks at: the arguments, then
\* result.output
Fields(a) == a.arguments \o <<a.output>>

RECURSIVE SumTokens(_)
SumTokens(texts) ==
    IF texts = <<>> THEN 0 ELSE Head(texts).tokens + SumTokens(Tail(texts))

\* count_tokens of _actions_to_xml of a list of actions (lines 123-144)
RECURSIVE XmlTokens(_)
XmlTokens(h) ==
    IF h = <<>> THEN 0 ELSE 50 + SumTokens(Fields(Head(h))) + XmlTokens(Tail(h))

\* line 85
TotalTokens(h) == XmlTokens(h) + ContextTokens

\* the margin test with < for <=
WithinBudget_Strict(total_tokens) ==
    total_tokens < max_context_window - compress_safety_margin

\* line 88
WithinBudget(total_tokens) ==
    total_tokens <= max_context_window - compress_safety_margin

\* the single-action branch left out
IsSingle_Never(h) == FALSE

\* line 75
IsSingle(h) == Len(h) = 1

\* the oldest action taken for the most recent one
RecentOf_First(h) == h[1]

\* line 80
RecentOf(h) == h[Len(h)]

\* lines 189 and 529: what one summarization call can take
available_tokens(overhead_tokens) ==
    (max_context_window * 6) \div 10 - ContextTokens - overhead_tokens

\* what llm_client.chat may do in one summarization call: answer, answer
\* with a status other than success, or raise
CallOutcomes == {"success", "failed", "exception"}

\* _single_summarize (260) and the except branch of
\* _summarize_historical_xml (198-206)
summary_text(outcome) ==
    CASE outcome = "success" -> Text(summary_target_tokens, "llm")
      [] outcome = "failed" -> Text(5, "[summary failed]")
      [] OTHER -> Text(5, "[history omitted]")

\* _fallback_compress, lines 724-739, on a text longer than the slices:
\* a tenth of max_tokens from each end with the tokenizer, max_tokens
\* characters from each end (four characters to a token) without
_fallback_compress(text, max_tokens, has_tiktoken) ==
    IF has_tiktoken
    THEN Text(max_tokens \div 10 + max_tokens \div 10 + 10, "fallback")
    ELSE Text((2 * ((max_tokens * 2) \div 2)) \div 4 + 5, "fallback")

\* _llm_compress_field, lines 571-590, for a text that needs no chunks
field_text(text, target_tokens, outcome, has_tiktoken) ==
    CASE outcome = "success" -> Text(target_tokens, "llm")
      [] outcome = "failed" -> Text(255, "truncated")
      [] OTHER -> _fallback_compress(text, target_tokens, has_tiktoken)

RECURSIVE GroupChunks(_, _, _, _)
\* _chunked_summarize, lines 301-319: action blocks grouped greedily into
\* chunks of at most `size` tokens; the result is the tokens of each chunk
GroupChunks(blocks, size, current_chunk, chunks) ==
    IF blocks = <<>>
    THEN IF current_chunk # <<>> THEN Append(chunks, SumTokens(current_chunk)) ELSE chunks
    ELSE IF SumTokens(current_chunk) + Head(blocks).tokens > size /\ current_chunk # <<>>
    THEN GroupChunks(Tail(blocks), size, <<Head(blocks)>>,
                     Append(chunks, SumTokens(current_chunk)))
    ELSE GroupChunks(Tail(blocks), size, Append(current_chunk, Head(blocks)), chunks)

\* the number of chunks of the historical actions
SummaryChunks(historical, size) ==
    Len(GroupChunks([k \in 1..Len(historical) |->
                        Text(50 + SumTokens(Fields(historical[k])), "orig")],
                    size, <<>>, <<>>))

\* _chunked_compress_field, lines 625-656, for a text without a blank line
\* and longer than a chunk: pieces of 3 * chunk_size characters
FieldChunks(text, size) == (4 * text.tokens + 3 * size - 1) \div (3 * size)

\* lines 371-379 and 703-711: what one chunk leaves behind
chunk_result(mode, i, outcome, target_per_chunk) ==
    [chunk |-> i,
     form |-> CASE outcome = "success" -> "llm"
                [] outcome = "failed" -> "[chunk failed]"
                [] OTHER -> "[chunk exception]",
     tokens |-> IF outcome = "success" THEN target_per_chunk
                ELSE IF mode = "summary" THEN 6 ELSE 130]

\* a chunk whose summarization failed leaving nothing behind
PartsAfterChunk_DropFailed(parts, part, outcome) ==
    IF outcome = "success" THEN Append(parts, part) ELSE parts

\* chunk_summaries.append / chunk_results.append, lines 372-378, 704-710
PartsAfterChunk(parts, part, outcome) == Append(parts, part)

\* lines 382 and 714: the chunk results joined in the order of the list
Joined(parts) ==
    [tokens |-> SumTokens(parts), form |-> "chunked", parts |-> parts]

\* the field j of an action (the last one is result.output) replaced
SetField(a, j, text) ==
    IF j <= Len(a.arguments)
    THEN [a EXCEPT !.arguments[j] = text]
    ELSE [a EXCEPT !.output = text]

\* the caller's list after field j of its last action was compressed:
\* the arguments are rebuilt on the copy (442), result.output is assigned
\* in the result dict the copy shares with the original (464)
SharedAfter(h, a, j, text) ==
    IF j <= Len(a.arguments) THEN h
    ELSE [h EXCEPT ![Len(h)].output = text]

\* the histories compress_if_needed is called with: up to MaxHistorical
\* earlier actions with an output of the given size, then a most recent
\* action whose arguments and output are small, just below the per-field
\* limit, above it, or too large for one summarization call
InputHistories ==
    LET HistoricalInputs ==
            { CAction("file_read", <<>>, Text(n, "orig")) :
                n \in {100, 30000, 59600, 90000} }
        RecentArguments ==
            { <<>>, <<Text(100, "orig")>>,
              <<Text(39000, "orig"), Text(39000, "orig")>>,
              <<Text(45000, "orig")>>, <<Text(90000, "orig")>> }
        RecentInputs ==
            { CAction("execute_code", args, Text(n, "orig")) :
                args \in RecentArguments, n \in {100, 39000, 45000, 90000} }
    IN {<<>>} \cup
       { hist \o <<recent>> :
           hist \in UNION { [1..n -> HistoricalInputs] : n \in 0..MaxHistorical },
           recent \in RecentInputs }

\* cmp: pc is the position in compress_if_needed; history the caller's list
\* and input what it was at the call; limit is max_field_tokens; summary,
\* recent and j are summary_action (none yet: <<>>), compressed_action and
\* the number of its fields looked at; mode, chunks, i, target, parts are
\* the chunk loop under way (its kind, len(chunks), chunks done, the
\* target of the whole, the results so far); chunk_outcomes, joined and
\* outcomes, calls observe the summarization calls
CompressorFresh(h, has_tiktoken) ==
    [pc |-> "called", input |-> h, history |-> h, has_tiktoken |-> has_tiktoken,
     limit |-> 0, summary |-> <<>>, recent |-> <<>>, j |-> 0,
     mode |-> "", chunks |-> 0, i |-> 0, target |-> 0, parts |-> <<>>,
     chunk_outcomes |-> <<>>, joined |-> <<>>, outcomes |-> {}, calls |-> 0,
     result |-> <<>>]

InitCompressor ==
    /\ ExecutorIdle
    /\ _handlers = <<>>
    /\ em = [pc |-> "idle"]
    /\ HIL_TASKS = <<>>
    /\ hil = [pc |-> "idle"]
    /\ \E h \in InputHistories, has_tiktoken \in BOOLEAN :
         cmp = CompressorFresh(h, has_tiktoken)

others == <<executor, _handlers, em, HIL_TASKS, hil>>

\* compress_if_needed, lines 71-89
CompressStart ==
    /\ cmp.pc = "called"
    /\ LET h == cmp.history IN
       cmp' = IF h = <<>>
              THEN [cmp EXCEPT !.pc = "returned", !.result = <<>>]
              ELSE IF IsSingle(h)
              THEN [cmp EXCEPT !.pc = "fields", !.recent = h[1],
                               !.limit = max_context_window \div 2]
              ELSE IF WithinBudget(TotalTokens(h))
              THEN [cmp EXCEPT !.pc = "returned", !.result = h]
              ELSE [cmp EXCEPT !.pc = "summarize", !.recent = RecentOf(h),
                               !.limit = (max_context_window * 5) \div 10]
    /\ UNCHANGED others

\* lines 97-103 and _summarize_historical_xml: one call of the model, or
\* the chunk loop of _chunked_summarize entered
Summarize ==
    /\ cmp.pc = "summarize"
    /\ LET historical == SubSeq(cmp.history, 1, Len(cmp.history) - 1)
           available == available_tokens(summary_overhead_tokens)
       IN IF XmlTokens(historical) > available
          THEN cmp' = [cmp EXCEPT !.pc = "chunks", !.mode = "summary",
                                  !.chunks = SummaryChunks(historical, available),
                                  !.i = 0, !.target = summary_target_tokens,
                                  !.parts = <<>>, !.chunk_outcomes = <<>>,
                                  !.joined = <<>>]
          ELSE \E outcome \in CallOutcomes :
                 cmp' = [cmp EXCEPT
                           !.pc = "fields",
                           !.summary = <<CAction("_historical_summary", <<>>,
                                                 summary_text(outcome))>>,
                           !.outcomes = @ \cup {outcome}, !.calls = @ + 1]
    /\ UNCHANGED others

\* one iteration of the loop over chunks (334-379, 673-711) and, after the
\* last chunk, the join and the return into compress_if_needed
ChunkStep ==
    /\ cmp.pc = "chunks"
    /\ \E outcome \in CallOutcomes :
         LET i == cmp.i + 1
             part == chunk_result(cmp.mode, i, outcome, cmp.target \div cmp.chunks)
             parts == PartsAfterChunk(cmp.parts, part, outcome)
             c == [cmp EXCEPT !.i = i, !.parts = parts,
                              !.chunk_outcomes = Append(@, outcome),
                              !.outcomes = @ \cup {outcome}, !.calls = @ + 1]
             text == Joined(parts)
         IN cmp' =
              IF i < cmp.chunks THEN c
              ELSE IF cmp.mode = "summary"
              THEN [c EXCEPT !.pc = "fields", !.joined = text,
                             !.summary = <<CAction("_historical_summary", <<>>, text)>>]
              ELSE [c EXCEPT !.pc = "fields", !.joined = text,
                             !.recent = SetField(cmp.recent, cmp.j + 1, text),
                             !.history = SharedAfter(@, cmp.recent, cmp.j + 1, text),
                             !.j = @ + 1]
    /\ UNCHANGED others

\* _compress_action_fields, lines 424-466, for one field: kept, compressed
\* by one call of the model, or handed to _chunked_compress_field
FieldStep ==
    /\ cmp.pc = "fields"
    /\ cmp.j < Len(Fields(cmp.recent))
    /\ LET j == cmp.j + 1
           text == Fields(cmp.recent)[j]
           available == available_tokens(field_overhead_tokens)
       IN IF text.tokens <= cmp.limit
          THEN cmp' = [cmp EXCEPT !.j = j]
          ELSE IF text.tokens > available
          THEN cmp' = [cmp EXCEPT !.pc = "chunks", !.mode = "field",
                                  !.chunks = FieldChunks(text, available),
                                  !.i = 0, !.target = cmp.limit,
                                  !.parts = <<>>, !.chunk_outcomes = <<>>,
                                  !.joined = <<>>]
          ELSE \E outcome \in CallOutcomes :
                 LET new == field_text(text, cmp.limit, outcome, cmp.has_tiktoken)
                 IN cmp' = [cmp EXCEPT
                              !.j = j,
                              !.recent = SetField(@, j, new),
                              !.history = SharedAfter(@, cmp.recent, j, new),
                              !.outcomes = @ \cup {outcome}, !.calls = @ + 1]
    /\ UNCHANGED others

\* lines 77 and 114-121: the list handed back
CompressReturn ==
    /\ cmp.pc = "fields"
    /\ cmp.j = Len(Fields(cmp.recent))
    /\ cmp' = [cmp EXCEPT !.pc = "returned", !.result = cmp.summary \o <<cmp.recent>>]
    /\ UNCHANGED others

NextCompressor ==
    \/ CompressStart
    \/ Summarize
    \/ ChunkStep
    \/ FieldStep
    \/ CompressReturn

SpecCompressor == InitCompressor /\ [][NextCompressor]_vars

(* ============================== claims ================================ *)
\* the current invocation of run() is still the one that loaded the state
\* (g is reset when the process dies)
Loaded1Pending == Len(g.loaded_pending) = 1 /\ ~g.loaded_final

\* C1: if the state loaded for the task has a full_trace that contains a
\* final_output action, run() returns exactly that action's recorded result
\* (it does not raise and returns no other value).
C1_ResumeReturnsRecordedResult ==
    g.loaded_final =>
        /\ pc = "returned"
        /\ g.ret = FirstFinalResult(store.action_history_fact)

\* C2: a run() that loaded a full_trace containing final_output makes no
\* model call and executes no tool: no turn-loop call, no replay of pending
\* operations, no initial, periodic or forced reflection.
C2_NoCallsAfterTerminalResult ==
    g.loaded_final =>
        /\ g.run_llm = 0
        /\ g.rec_log = <<>>
        /\ g.executing = NoExec
        /\ g.run_initial = 0 /\ g.run_periodic = 0 /\ g.run_forced = 0
        /\ pc \notin {"recover", "init_think", "turn", "llm", "dispatch", "exec",
                      "record", "reflect", "forced"}

\* a run that loaded final_output together with a pending record has ended
C2_Witness ==
    /\ g.loaded_final
    /\ g.loaded_pending # <<>>
    /\ Terminated

\* C3: when the loaded state holds exactly one pending operation and no
\* final_output, the run executes that tool exactly once, under that name
\* and with those arguments, and does so before its first model call.
C3_OnePendingReplayedBeforeModel ==
    Loaded1Pending =>
        /\ Len(g.rec_log) <= 1
        /\ \A i \in 1..Len(g.rec_log) :
              /\ g.rec_log[i].name = g.loaded_pending[1].name
              /\ g.rec_log[i].arguments = g.loaded_pending[1].arguments
        /\ (pc # "recover" => Len(g.rec_log) = 1)
        /\ (g.run_llm > 0 => Len(g.rec_log) = 1)

\* the replay is done and the run has gone on to call the model
C3_Witness ==
    /\ Loaded1Pending
    /\ Len(g.rec_log) = 1
    /\ g.run_llm > 0

C5_PendingRecordHasExecutedArguments ==
    /\ (pc = "record" =>
          /\ g.executing.arguments = cur_args
          /\ \E i \in 1..Len(store.pending_tools) :
                /\ store.pending_tools[i].id = tool_calls[call_idx].id
                /\ store.pending_tools[i].name = g.executing.name
                /\ store.pending_tools[i].arguments = g.executing.arguments)
    /\ \A i \in 1..Len(g.rec_log) :
          \E j \in 1..Len(g.loaded_pending) :
             /\ g.loaded_pending[j].name = g.rec_log[i].name
             /\ g.loaded_pending[j].arguments = g.rec_log[i].arguments

\* a suffixed sub-agent call has run on dispatch
C5_Witness ==
    /\ pc = "record"
    /\ g.executing.name = "sub_agent"
    /\ Len(g.executing.arguments) = 2

\* C6: in a run where no model response carries a tool call, reminders are
\* recorded for the first 5 responses only; the 6th response triggers the
\* one forced reflection, and the run that returns from it returns an error
\* result after exactly 5 reminders and 6 model calls, the 5th reminder
\* action (_no_tool_call, status error) being the last of rendered_history.
C6_FiveRemindersThenForcedError ==
    g.run_tool_resp = 0 =>
        /\ g.run_reminders <= max_no_tool_reminders
        /\ g.run_llm <= max_no_tool_reminders + 1
        /\ g.run_forced <= 1
        /\ (pc = "forced" \/ g.ret_kind = "forced" =>
               /\ g.run_reminders = max_no_tool_reminders
               /\ g.run_llm = max_no_tool_reminders + 1)
        /\ (pc = "forced" \/ g.ret_kind = "forced" =>
               /\ action_history # <<>>
               /\ LET a == action_history[Len(action_history)]
                  IN /\ a.tool_name = "_no_tool_call"
                     /\ a.result.status = "error"
                     /\ a.result.output = ReminderOutput(max_no_tool_reminders))
        /\ (g.ret_kind = "forced" =>
               /\ pc = "returned"
               /\ g.run_forced = 1
               /\ g.ret.status = "error")

\* a run without any tool call has returned from the forced reflection
C6_Witness ==
    /\ g.run_tool_resp = 0
    /\ g.ret_kind = "forced"
    /\ g.run_reminders = 5
    /\ Len(action_history) = 5
    /\ \A i \in 1..5 : action_history[i].tool_name = "_no_tool_call"

\* C7: a response with a tool call resets the reminder counter to zero, so
\* the forced-reflection exit is taken only after 6 responses in a row
\* without a tool call.
C7_ReminderCounterReset ==
    /\ (pc \in {"dispatch", "exec", "record", "reflect"} => max_tool_try = 0)
    /\ max_tool_try <= g.streak
    /\ (pc = "forced" \/ g.ret_kind = "forced" => g.streak = max_no_tool_reminders + 1)

\* the forced exit is taken in a run that had a tool call before
C7_Witness ==
    /\ g.ret_kind = "forced"
    /\ g.run_tool_resp >= 1
    /\ g.streak = 6

\* C8: at the end of a turn a periodic reflection is triggered exactly when
\* the turn's tool calls moved the tool-call counter across a multiple of
\* the interval, at most once per turn; a turn with one tool call triggers
\* it exactly when the counter has reached a multiple of the interval, and
\* in a first run the counter is the number of tool calls recorded.
C8_ReflectionCadence ==
    [][ (pc = "reflect" /\ pc' = "turn") =>
          LET triggered == g'.run_periodic # g.run_periodic IN
          /\ g'.run_periodic \in {g.run_periodic, g.run_periodic + 1}
          /\ triggered <=> ( (g.ctr_at_resp \div thinking_interval)
                               < (tool_call_counter \div thinking_interval) )
          /\ (Len(tool_calls) = 1 =>
                (triggered <=> tool_call_counter % thinking_interval = 0))
          /\ (g.runs = 1 => tool_call_counter = Len(action_history_fact))
      ]_vars

\* one reflection after a turn whose two tool calls crossed two multiples
C8_Witness ==
    /\ pc = "turn"
    /\ thinking_interval = 1
    /\ Len(tool_calls) = 2
    /\ g.run_periodic = 1
    /\ tool_call_counter = 2

\* C9: a periodic reflection that returns output makes that output the
\* checkpoint and leaves rendered_history empty at the start of the next
\* turn; full_trace, the tool-call counter and the pending list are as they
\* were before the reflection step.
C9_ReflectionResetsRenderedHistory ==
    [][ (pc = "reflect" /\ pc' = "turn" /\ g'.run_periodic # g.run_periodic) =>
          /\ (g'.last_think # "" =>
                /\ latest_thinking' = g'.last_think
                /\ action_history' = <<>>)
          /\ action_history_fact' = action_history_fact
          /\ tool_call_counter' = tool_call_counter
          /\ pending_tools' = pending_tools
      ]_vars

\* the turn after a reflection with output starts
C9_Witness ==
    /\ pc = "turn"
    /\ g.run_periodic >= 1
    /\ g.last_think # ""
    /\ latest_thinking = g.last_think
    /\ action_history = <<>>
    /\ action_history_fact # <<>>

\* C10: run() returns the result of a final_output call as soon as the call
\* has executed: the calls listed after it in the response are neither
\* registered as pending nor executed, and the invocation then does nothing
\* more (no reflection, no model call).
C10_FinalOutputEndsRun ==
    /\ [][ (pc = "record" /\ tool_calls[call_idx].name = "final_output"
            /\ pc' # "exited") =>
              /\ pc' = "returned"
              /\ g'.ret = tool_result
              /\ g'.ret_kind = "final" ]_vars
    /\ [][ (pc = "returned" /\ g.ret_kind = "final") =>
              \/ UNCHANGED vars
              \/ g'.runs = g.runs + 1 ]_vars
    /\ [] ( (pc = "returned" /\ g.ret_kind = "final") =>
              /\ pending_tools = <<>>
              /\ store.pending_tools = <<>>
              /\ \A j \in (call_idx + 1)..Len(tool_calls) :
                    \A i \in 1..Len(action_history_fact) :
                       action_history_fact[i].tool_call_id # tool_calls[j].id )

\* final_output was not the last call of the response
C10_Witness ==
    /\ pc = "returned"
    /\ g.ret_kind = "final"
    /\ call_idx < Len(tool_calls)

\* C11: when run() has returned because the model requested final_output,
\* the returned value is the result of that execution, the persisted
\* full_trace ends with that final_output action and holds no other
\* final_output action, and a fresh task whose first response carried only
\* that call has a full_trace of exactly one action.
C11_FinalOutputIsLastAndOnly ==
    (pc = "returned" /\ g.ret_kind = "final") =>
        LET ft == store.action_history_fact IN
        /\ store.present
        /\ ft # <<>>
        /\ ft[Len(ft)].tool_name = "final_output"
        /\ ft[Len(ft)].result = g.ret
        /\ g.ret = tool_result
        /\ \A i \in 1..(Len(ft) - 1) : ft[i].tool_name # "final_output"
        /\ (~g.loaded /\ g.run_llm = 1 /\ Len(tool_calls) = 1 => Len(ft) = 1)

\* C12: run() ends in one of three ways: it returns the result of a
\* final_output call, it returns a result with status error (the timeout
\* result when the turn index reached the maximum), or the process exits.
C12_RunEndsInListedOutcome ==
    Terminated =>
        \/ pc = "returned" /\ g.ret_kind = "final"
        \/ pc = "returned" /\ g.ret_kind # "final" /\ g.ret.status = "error"
        \/ pc = "exited"

\* s is an initial segment of t
IsPrefix(s, t) ==
    /\ Len(s) <= Len(t)
    /\ \A i \in 1..Len(s) : s[i] = t[i]

\* C13: full_trace is append-only: every step leaves the persisted
\* full_trace a prefix of its next value, and within one invocation of
\* run() the in-memory full_trace a prefix of its next value, so a recorded
\* tool execution stays in it, unchanged and in order, through compression,
\* reflection, crash and resume.
C13_FullTraceAppendOnly ==
    [][ /\ (store.present =>
              /\ store'.present
              /\ IsPrefix(store.action_history_fact, store'.action_history_fact))
        /\ (g'.runs = g.runs /\ pc' # "exited" =>
              IsPrefix(action_history_fact, action_history_fact'))
      ]_vars

\* C14: the compression step of a turn changes no record of full_trace:
\* results and arguments of all its actions are the same before and after,
\* also when the oversized output of the most recent action is compressed
\* and both lists hold a record made from the same tool result.
C14_CompressionLeavesFullTrace ==
    [][ (pc = "turn" /\ pc' = "llm") => action_history_fact' = action_history_fact ]_vars

\* the pending list q holds a record for tool call tc
IsPendingIn(q, tc) == \E i \in 1..Len(q) : q[i].id = tc.id /\ q[i].name = tc.name

\* the tool calls of the current response whose execution has been settled
SettledCalls ==
    IF pc \in {"dispatch", "exec", "record"} THEN 1..(call_idx - 1)
    ELSE IF pc = "reflect" \/ (pc = "returned" /\ g.ret_kind = "final") THEN 1..call_idx
    ELSE {}

\* C15: while a dispatched tool executes, its pending record is in the
\* pending list and in the persisted state; once the tool has returned and
\* the call is settled, with status success or error alike, the record is in
\* neither.
C15_PendingLifecycle ==
    /\ (pc = "exec" =>
          /\ IsPendingIn(pending_tools, tool_calls[call_idx])
          /\ store.present
          /\ IsPendingIn(store.pending_tools, tool_calls[call_idx]))
    /\ \A j \in SettledCalls :
          /\ ~IsPendingIn(pending_tools, tool_calls[j])
          /\ ~IsPendingIn(store.pending_tools, tool_calls[j])

\* a tool call that returned status error has been settled
C15_Witness ==
    /\ pc = "reflect"
    /\ tool_result.status = "error"
    /\ call_idx = Len(tool_calls)
    /\ pending_tools = <<>>
    /\ store.pending_tools = <<>>

\* C16: outside the dispatch of a tool call the pending list is empty: in
\* memory once loading and recovery are over (before the initial reflection
\* and at every turn boundary), in the state persisted at the start of each
\* turn, and in the state persisted after the last tool call of a turn.
C16_PendingEmptyAtTurnBoundaries ==
    /\ (pc \in {"init_think", "turn", "llm", "reflect", "forced"} => pending_tools = <<>>)
    /\ (pc \in {"llm", "reflect"} => store.present /\ store.pending_tools = <<>>)

\* a resumed run replayed a pending record that failed again, and has saved
\* its first turn
C16_Witness ==
    /\ g.loaded_pending # <<>>
    /\ Len(g.rec_log) = 1
    /\ Len(action_history_fact) = Len(store.action_history_fact)
    /\ \A i \in 1..Len(action_history_fact) : action_history_fact[i].tool_call_id # 0
    /\ pc = "llm"
    /\ store.pending_tools = <<>>

\* the step that settles the current tool call recorded it as an ordinary
\* action with the returned result and went on with the next tool call or
\* the end of the turn
RecordedAndContinued ==
    /\ Len(action_history_fact') = Len(action_history_fact) + 1
    /\ action_history_fact'[Len(action_history_fact')].tool_name = tool_calls[call_idx].name
    /\ action_history_fact'[Len(action_history_fact')].result = tool_result
    /\ Len(action_history') = Len(action_history) + 1
    /\ action_history'[Len(action_history')].tool_name = tool_calls[call_idx].name
    /\ action_history'[Len(action_history')].result = tool_result
    /\ \/ pc' = "dispatch" /\ call_idx' = call_idx + 1
       \/ pc' = "reflect" /\ call_idx = Len(tool_calls)

\* C17 as stated: a tool execution that returned status error is recorded
\* as an ordinary action in rendered_history and full_trace, and the loop
\* goes on with the next tool call or turn; it never ends run().
C17_ErrorResultNeverEndsRun ==
    [][ (pc = "record" /\ tool_result.status = "error" /\ pc' # "exited")
          => RecordedAndContinued ]_vars

\* C17 amended: the same for every tool other than final_output (a
\* final_output call ends run() with its result, whatever the status).
C17_ErrorResultOfOrdinaryToolContinues ==
    [][ (pc = "record" /\ tool_result.status = "error" /\ pc' # "exited"
         /\ tool_calls[call_idx].name # "final_output")
          => RecordedAndContinued ]_vars

\* a failed sub_agent call was recorded and the next call of the response
\* is being dispatched
C17_Witness ==
    /\ pc = "dispatch"
    /\ call_idx = 2
    /\ tool_calls[1].name = "sub_agent"
    /\ action_history_fact # <<>>
    /\ action_history_fact[Len(action_history_fact)].tool_call_id = tool_calls[1].id
    /\ action_history_fact[Len(action_history_fact)].result.status = "error"

\* C18 as stated: a model call that reports a non-success status is
\* escalated as an unrecoverable error: the process terminates and run()
\* returns nothing to its caller.
C18_ModelFailureIsFatal ==
    [][ LlmFailure => (pc' = "exited" /\ g'.exit = "fatal") ]_vars

\* C18 amended: a model call that reports a non-success status makes run()
\* return an error result to its caller; the process does not exit, the
\* persisted state stays as saved at the start of that turn, and the
\* invocation does nothing more.
C18_ModelFailureReturnsError ==
    /\ [][ LlmFailure =>
              /\ pc' = "returned"
              /\ g'.ret.status = "error"
              /\ g'.exit = ""
              /\ store' = store ]_vars
    /\ [][ (pc = "returned" /\ g.ret_kind = "llm_error") =>
              \/ UNCHANGED vars
              \/ g'.runs = g.runs + 1 ]_vars
    /\ [] ( (pc = "returned" /\ g.ret_kind = "llm_error") =>
              /\ store.present
              /\ store.current_turn = turn
              /\ store.pending_tools = <<>> )

\* the model call failed in a turn after one with tool calls, and run()
\* has returned
C18_Witness ==
    /\ pc = "returned"
    /\ g.ret_kind = "llm_error"
    /\ g.ret.status = "error"
    /\ g.run_tool_resp >= 1
    /\ g.exit = ""

\* rendered_history was not replaced: the same records, the output of the
\* most recent one possibly compressed
NotReplaced(h, h2) ==
    /\ Len(h2) = Len(h)
    /\ \A i \in 1..(Len(h) - 1) : h2[i] = h[i]
    /\ \/ h2[Len(h)] = h[Len(h)]
       \/ \E fout \in FieldOutputs : h2[Len(h)] = [h[Len(h)] EXCEPT !.result.output = fout]

\* C19: a compression step in which a summarization call failed still
\* completes and the turn goes on to the model call.  After an exception
\* out of the compressor rendered_history is unchanged; after a failed
\* field compression its most recent output is the truncated text; after
\* a failed historical summary it is the placeholder summary followed by
\* the most recent action, or it was not replaced.
C19_CompressionFailureNeverEndsTurn ==
    [][ (pc = "turn" /\ turn < max_turns /\ pc' # "exited") =>
          /\ pc' = "llm"
          /\ ("raised" \in g'.cmp_fail => action_history' = action_history)
          /\ ("field" \in g'.cmp_fail =>
                action_history'[Len(action_history')].result.output = "cut")
          /\ ("summary" \in g'.cmp_fail =>
                \/ /\ Len(action_history') = 2
                   /\ Len(action_history) > 2
                   /\ action_history'[1].tool_name = "_historical_summary"
                   /\ action_history'[1].result.output = "[failed]"
                \/ NotReplaced(action_history, action_history'))
      ]_vars

\* the summary of an over-long history failed, the placeholder is in
\* rendered_history and the model call is due
C19_Witness ==
    /\ pc = "llm"
    /\ "summary" \in g.cmp_fail
    /\ Len(action_history) = 2
    /\ action_history[1].tool_name = "_historical_summary"
    /\ action_history[1].result.output = "[failed]"

\* C20: an exception raised inside a try block of run() (state save,
\* context build, model call, tool execution, reflection) leads to exactly
\* one fatal error event followed by the exit of the process with a
\* non-zero status; the persisted state is left as it was, and nothing
\* more happens in that process (no retry, no further turn).
C20_ExceptionIsFatalOnce ==
    /\ [][ (InTry /\ pc' = "exited" /\ g'.exit = "fatal") =>
              /\ g'.events = <<"system.error">>
              /\ g'.exit_status # 0
              /\ store' = store ]_vars
    /\ [][ pc = "exited" =>
              \/ UNCHANGED vars
              \/ g'.runs = g.runs + 1 ]_vars
    /\ [] ( (pc = "exited" /\ g.exit = "fatal") =>
              /\ Len(g.events) = 1
              /\ g.exit_status # 0 )

\* a tool execution raised: the process has exited and the persisted state
\* still holds the pending record
C20_Witness ==
    /\ pc = "exited"
    /\ g.exit = "fatal"
    /\ g.events = <<"system.error">>
    /\ store.present
    /\ store.pending_tools # <<>>

(* C30: over any sequence of interruptions and resumes, one tool call the
   model requested is executed at most twice: once when it is dispatched
   and at most once by the replay of its pending record. *)
C30_ToolCallExecutedAtMostTwice ==
    \A id \in DOMAIN g.execs : g.execs[id] <= 2

(* C21: for every input history, compress_if_needed returns no more actions
   than it was given: an empty history stays empty, one action stays one,
   and n >= 2 actions come back as n or as 2. *)
C21_OutputNoLongerThanInput ==
    cmp.pc = "returned" =>
        LET n == Len(cmp.input)
            m == Len(cmp.result)
        IN /\ m <= n
           /\ n <= 1 => m = n
           /\ n >= 2 => m \in {n, 2}

C21_Witness ==
    /\ cmp.pc = "returned"
    /\ Len(cmp.input) = 3
    /\ Len(cmp.result) = 2
    /\ cmp.calls > 0

(* C22: for every input history, with every summarization call failing
   (the fallback path), the estimated tokens of the history returned by
   compress_if_needed are at most the budget, also when the most recent
   action has several fields each below the per-field limit. *)
C22_FallbackOutputWithinBudget ==
    cmp.pc = "returned" /\ cmp.outcomes \subseteq {"exception"} =>
        XmlTokens(cmp.result) <= max_context_window

\* the list, the calls made and the caller's actions as they were
Untouched ==
    /\ cmp.result = cmp.input
    /\ cmp.calls = 0
    /\ cmp.history = cmp.input

(* C23, as stated: compress_if_needed is a no-op whenever the estimate of
   history, checkpoint and task text is at most the budget minus the safety
   margin, for histories of any length, a single action included. *)
C23_NoOpWithinMargin ==
    cmp.pc = "returned"
      /\ TotalTokens(cmp.input) <= max_context_window - compress_safety_margin
    => Untouched

(* C23, amended: compress_if_needed is a no-op whenever the history has at
   least two actions and the estimate is at most the budget minus the
   safety margin, whenever it has exactly one action none of whose fields
   exceeds half the budget, and whenever it is empty. *)
C23_NoOpWithinMarginOrSingleSmall ==
    cmp.pc = "returned"
      /\ \/ cmp.input = <<>>
         \/ /\ Len(cmp.input) >= 2
            /\ TotalTokens(cmp.input) <= max_context_window - compress_safety_margin
         \/ /\ Len(cmp.input) = 1
            /\ \A k \in 1..Len(Fields(cmp.input[1])) :
                  Fields(cmp.input[1])[k].tokens <= max_context_window \div 2
    => Untouched

C23_Witness ==
    /\ cmp.pc = "returned"
    /\ Len(cmp.input) = 2
    /\ TotalTokens(cmp.input) = max_context_window - compress_safety_margin
    /\ Untouched

(* C24: for every history of at least 2 actions whose estimate exceeds the
   budget minus the safety margin, compress_if_needed returns exactly 2
   entries: an action named _historical_summary, then the last original
   action (same tool name) with its oversized fields compressed. *)
C24_SummaryThenCompressedRecent ==
    cmp.pc = "returned" /\ Len(cmp.input) >= 2
      /\ TotalTokens(cmp.input) > max_context_window - compress_safety_margin
    => /\ Len(cmp.result) = 2
       /\ cmp.result[1].tool_name = "_historical_summary"
       /\ LET last == cmp.input[Len(cmp.input)]
              got == cmp.result[2]
          IN /\ got.tool_name = last.tool_name
             /\ Len(got.arguments) = Len(last.arguments)
             /\ \A k \in 1..Len(Fields(last)) :
                  IF Fields(last)[k].tokens > (max_context_window * 5) \div 10
                  THEN Fields(got)[k].form # "orig"
                  ELSE Fields(got)[k] = Fields(last)[k]

C24_Witness ==
    /\ cmp.pc = "returned"
    /\ Len(cmp.input) = 3
    /\ Len(cmp.result) = 2
    /\ cmp.result[2].output.form = "llm"
    /\ cmp.result[2].arguments = <<Text(39000, "orig"), Text(39000, "orig")>>
    /\ cmp.result[1].output.form = "chunked"

(* C25: in chunked summarization a chunk whose summarization fails (an
   exception or a status other than success) leaves a marked placeholder
   for that chunk only: the other chunks are summarized, the results are
   joined in the order of the chunks, and the operation returns a result
   rather than aborting. *)
C25_ChunkFailureIsLocal ==
    /\ Len(cmp.chunk_outcomes) = cmp.i
    /\ Len(cmp.parts) = cmp.i
    /\ \A k \in 1..Len(cmp.parts) :
         /\ cmp.parts[k].chunk = k
         /\ cmp.parts[k].form =
              CASE cmp.chunk_outcomes[k] = "success" -> "llm"
                [] cmp.chunk_outcomes[k] = "failed" -> "[chunk failed]"
                [] OTHER -> "[chunk exception]"
    /\ cmp.pc # "chunks" /\ cmp.chunks > 0 =>
         /\ cmp.i = cmp.chunks
         /\ cmp.joined = Joined(cmp.parts)
    /\ cmp.pc = "returned" /\ cmp.chunks > 0 /\ cmp.mode = "field" =>
         \E k \in 1..Len(Fields(cmp.result[Len(cmp.result)])) :
            Fields(cmp.result[Len(cmp.result)])[k] = cmp.joined

C25_Witness ==
    /\ cmp.pc = "returned"
    /\ cmp.chunks = 3
    /\ cmp.chunk_outcomes = <<"success", "exception", "failed">>
    /\ cmp.result[Len(cmp.result)].output.form = "chunked"

(* C26: dispatch(event) delivers the event exactly once to every registered
   observer, in the order the observers were registered. *)
C26_DeliveredOnceInRegistrationOrder ==
    em.pc = "returned" =>
        em.received = [k \in 1..Len(em.observers) |->
                          [handler |-> em.observers[k], event |-> em.event]]

C26_Witness ==
    /\ em.pc = "returned"
    /\ em.observers = <<"jsonl", "console", "custom">>
    /\ Len(em.received) = 3
    /\ em.dispatches = 2

(* C27: when an observer raises while handling an event, every observer
   registered after it still receives that event, and dispatch returns to
   its caller without the exception. *)
C27_ObserverFailureIsolated ==
    /\ em.pc # "raised_out"
    /\ em.pc = "returned" =>
         \A k \in em.raised : \A j \in (k + 1)..Len(em.observers) :
             \E n \in 1..Len(em.received) :
                 em.received[n] = [handler |-> em.observers[j], event |-> em.event]

C27_Witness ==
    /\ em.pc = "returned"
    /\ Len(em.observers) = 3
    /\ em.raised = {1, 2}
    /\ Len(em.received) = 3

(* C28: a human-in-the-loop wait that exceeds its timeout gives the turn
   loop an ordinary tool result with status error, which is recorded as an
   action and after which the loop goes on; the loop is never cancelled or
   ended by it. *)
C28_HilTimeoutIsToolError ==
    /\ hil.timed_out /\ hil.pc = "returned" => hil.result.status = "error"
    /\ hil.timed_out /\ hil.loop # "" =>
         /\ hil.loop = "continues"
         /\ hil.recorded # <<>>
         /\ hil.recorded.tool_name = HilToolCall.name
         /\ hil.recorded.result = hil.result
         /\ hil.recorded.result.status = "error"

C28_Witness ==
    /\ hil.timed_out
    /\ hil.loop = "continues"
    /\ hil.elapsed > hil.timeout
    /\ hil.timeout # NoTimeout
    /\ hil.recorded.result.status = "error"

HilSettled == {"completed", "cancelled", "timeout"}

(* C29: the status of a human task moves only from waiting to one of
   completed, cancelled and timeout; once it is one of these it never
   becomes a different status, however the polling tool, complete_hil_task
   and cancel_hil_task interleave (a later call of the tool with the same
   hil_id registers a new task). *)
C29_HilStatusSettlesOnce ==
    [][\A id \in HilIds :
          (/\ id \in DOMAIN HIL_TASKS
           /\ HIL_TASKS[id].status \in HilSettled
           /\ id \in DOMAIN HIL_TASKS'
           /\ ~(hil'.calls > hil.calls /\ hil'.hil_id = id))
          => HIL_TASKS'[id].status = HIL_TASKS[id].status]_vars

\* the current invocation of run() found no state in the store and has not
\* issued a model call yet
BeforeFirstModelCall ==
    /\ g.runs >= 1
    /\ ~g.loaded
    /\ pc \in {"turn", "llm"}
    /\ g.run_llm = 0

(* C31: for a task with no persisted state, the initial reflection has been
   triggered before the first model call of the turn loop, and when it gave
   output, that output is the checkpoint and a state holding it is in the
   store before the first model call. *)
C31_InitialReflectionBeforeFirstModelCall ==
    BeforeFirstModelCall =>
        /\ g.run_initial = 1
        /\ g.last_think # "" =>
             /\ latest_thinking = g.last_think
             /\ first_thinking_done
             /\ store.present
             /\ store.latest_thinking = g.last_think
             /\ store.first_thinking_done

C31_Witness ==
    /\ BeforeFirstModelCall
    /\ pc = "llm"
    /\ g.last_think = "plan_a"
    /\ store.latest_thinking = "plan_a"

(* C32: when the initial reflection call fails, run() goes on to the turn
   loop and its first model call; the process is not ended by the failure
   (an interruption from outside aside). *)
C32_InitialReflectionFailureContinues ==
    [][pc = "init_think" => (pc' = "turn" \/ g'.exit = "killed")]_vars

(* C33: when the pending record replayed by the recovery is the terminal
   tool final_output, run() returns the replayed result: the turn loop is
   not entered and no model call is issued. *)
C33_ReplayedFinalOutputEndsRun ==
    \A i \in 1..Len(action_history_fact) :
        (/\ action_history_fact[i].tool_name = "final_output"
         /\ action_history_fact[i]._turn = -1
         /\ ~g.loaded_final
         /\ g.runs >= 1)
        => /\ pc = "returned"
           /\ g.ret = action_history_fact[i].result
           /\ g.run_llm = 0

(* C34: whenever the estimate of the rendered history at the start of a turn
   exceeds the budget minus the safety margin, the rendered history the
   turn's model messages are built from is the list compress_if_needed
   returned, for every length of the history, 1 and 2 included. *)
C34_OverMarginHistoryIsCompressed ==
    [][(/\ pc = "turn"
        /\ pc' = "llm"
        /\ HistoryTokens(action_history) + ContextTokens
               > max_context_window - compress_safety_margin
        /\ "raised" \notin g'.cmp_fail)
       => \E sout \in SummaryOutputs, fout \in FieldOutputs :
             action_history' = compress_if_needed(action_history, sout, fout)]_vars

\* how many tool calls a persisted snapshot holds, as pending records and
\* as actions of full_trace
Represented(st) ==
    IF st.present THEN Len(st.pending_tools) + Len(st.action_history_fact) ELSE 0

\* a tool call held by a snapshot both as pending record and as action
InBoth(st) ==
    /\ st.present
    /\ \E i \in 1..Len(st.pending_tools), j \in 1..Len(st.action_history_fact) :
          st.pending_tools[i].id = st.action_history_fact[j].tool_call_id

(* C35: every persisted snapshot holds each tool call whose dispatch the
   turn loop has started exactly once, as a pending record or as an action
   of full_trace, never as both and never as neither: a save adds one
   representation exactly when it is the save of a dispatch that starts,
   and no save drops or doubles one. *)
C35_StartedCallRepresentedOnce ==
    [][/\ ~InBoth(store')
       /\ Represented(store') =
             Represented(store) + (IF pc = "dispatch" /\ pc' = "exec" THEN 1 ELSE 0)]_vars

(* C36: every state persisted from a fresh task, through any sequence of
   turns, interruptions and resumes, holds at most one pending record: the
   tool calls of a turn are dispatched one at a time and each is settled
   before the next is registered. *)
C36_AtMostOnePendingPersisted ==
    store.present => Len(store.pending_tools) <= 1

C36_Witness ==
    /\ g.runs >= 2
    /\ g.rec_log # <<>>
    /\ pc = "exec"
    /\ store.present
    /\ Len(store.pending_tools) = 1
    /\ Len(store.action_history_fact) = 1
    /\ store.action_history_fact[1]._turn = -1

\* the entries of the call log with the given operation
CallsOf(op) == SelectSeq(g.calls, LAMBDA c : c.op = op)

(* C37: every invocation of run() that returns a result to its caller (by
   final_output, model-call error, forced-reflection error or turn-ceiling
   timeout) has made exactly one hierarchy push, followed by exactly one
   hierarchy pop for the same agent id, and has dispatched exactly one
   agent-end event. *)
C37_ReturnPopsAndEndsOnce ==
    pc = "returned" =>
        /\ g.ret_kind \in {"final", "llm_error", "forced", "timeout"}
        /\ Len(CallsOf("push")) = 1
        /\ Len(CallsOf("pop")) = 1
        /\ Len(CallsOf("agent.end")) = 1
        /\ g.calls[1].op = "push"
        /\ CallsOf("pop")[1].agent_id = g.calls[1].agent_id

C37_Witness ==
    /\ pc = "returned"
    /\ g.ret_kind = "timeout"
    /\ g.calls = <<HierarchyCall("push", g.agent_id), HierarchyCall("pop", g.agent_id),
                   AgentEnd("error")>>

\* _build_messages_from_action_history, lines 338 and 348: the actions that
\* are grouped by turn tag
IsToolAction(a) == a.tool_name \notin {"_historical_summary", "_no_tool_call"}

\* line 362: action.get("_turn", 0), the group an action is rendered in
TurnTag(a) == IF a._turn = -1 THEN 0 ELSE a._turn

\* how many actions at the end of the rendered history the current model
\* response has recorded
RecordedOfResponse ==
    IF pc = "dispatch" THEN call_idx - 1
    ELSE IF pc = "reflect" THEN Len(tool_calls)
    ELSE call_idx

(* C38: in rendered_history, actions of different model responses never
   carry the same turn-group tag: the actions the current response has
   recorded have a tag that no tool action recorded before the response
   carries, over any sequence of turns, compressions, interruptions and
   resumes. *)
C38_TurnTagPerResponse ==
    (\/ pc = "dispatch" /\ call_idx > 1
     \/ pc = "reflect"
     \/ pc = "returned" /\ g.ret_kind = "final")
    => LET m == Len(action_history)
           n == RecordedOfResponse
       IN \A i \in 1..(m - n), j \in (m - n + 1)..m :
             IsToolAction(action_history[i])
                => TurnTag(action_history[i]) # TurnTag(action_history[j])

(* C39: in the state saved at the start of every turn, the tool-call counter
   equals the number of tool executions recorded in full_trace, over any
   sequence of turns, interruptions and resumes, the executions recorded by
   the replay of pending records included. *)
C39_CounterMatchesFullTrace ==
    pc = "llm" => store.tool_call_counter = Len(store.action_history_fact)

\* waiter w polls with no timeout on an entry that is gone: no iteration
\* of its loop returns
PollsForever(w) ==
    /\ hil.waiters[w].pc = "polling"
    /\ hil.waiters[w].timeout = NoTimeout
    /\ SharedHilId \notin DOMAIN HIL_TASKS

(* C40: when two human-in-the-loop calls wait on the same hil_id and the
   task is then marked completed once, both calls return: neither is left
   polling for ever, and neither fails because the other removed the
   shared table entry. *)
C40_BothWaitersReturn ==
    hil.completions = 1 =>
        \A w \in Waiters :
            /\ ~PollsForever(w)
            /\ hil.waiters[w].result # KeyErrorResult

====
